---- MODULE Spec2Model ----
(***************************************************************************)
(* miro.config (src/tv/lib/config.py): the preference store, and the       *)
(* item list controllers of the widget frontend                          *)
(* (src/tv/lib/frontends/widgets/itemlistcontroller.py).                   *)
(*                                                                         *)
(* The module state (_data, TEMPORARY_SETTINGS, _callbacks, _lock) and     *)
(* its collaborators (platform backend, app config file, idle queue) are   *)
(* the variables.  Every function of the module is a frame on the calling  *)
(* thread's stack; a frame advances one statement group at a time, so the  *)
(* nested calls (get -> _check_validity -> load -> get) and the            *)
(* interleavings of threads are those of the code.                         *)
(***************************************************************************)
EXTENDS Integers, Sequences, FiniteSets, TLC

VARIABLES
    data,          \* _data: NoneDict or a dict key -> value
    temp,          \* TEMPORARY_SETTINGS: NoneDict or a dict
    callbacks,     \* _callbacks: a set
    lockOwner,     \* _lock: owning thread, NoOwner when free
    lockCount,     \* _lock: recursion level of the owner
    configfile,    \* app.configfile: "unset" before the first load, then the theme it was built for
    appSerialKey,  \* prefs.APP_SERIAL.key
    store,         \* what the platform backend has persisted
    inUnitTests,   \* hasattr(app, 'in_unit_tests')
    queue,         \* eventloop's idle-task queue
    stack,         \* per thread: the call stack of frames
    written,       \* history: key -> value of the last set(d, v) since load/init_temporary
    loaded,        \* history: some load has assigned _data
    base,          \* history: _data as of init_temporary or of the last load in temporary mode
    regs,          \* history: per callback, the add_change_callback calls since its last removal
    ctl,           \* per controller: the ItemListController's attributes, its views and its item list
    wstate,        \* app.widget_state: what is saved for the controller's (type, id)
    info,          \* per item id: the attributes of its ItemInfo
    emitters,      \* per signal emitter: the handles it issued, the live ones, the disconnect calls
    pm,            \* app.playback_manager
    mgr,           \* app.item_list_controller_manager.displayed
    timers,        \* per controller and item id: the pending _do_iteration timers
    saved_items,   \* app.saved_items
    hist,          \* history, per controller: the tracker's signals and the animation's calls
    out            \* history: what the last handler did (exception, messages, connections)

configVars == <<data, temp, callbacks, lockOwner, lockCount, configfile, appSerialKey,
                store, inUnitTests, queue, stack, written, loaded, base, regs>>

frontendVars == <<ctl, wstate, info, emitters, pm, mgr, timers, saved_items, hist, out>>

vars == <<data, temp, callbacks, lockOwner, lockCount, configfile, appSerialKey,
          store, inUnitTests, queue, stack, written, loaded, base, regs,
          ctl, wstate, info, emitters, pm, mgr, timers, saved_items, hist, out>>

----------------------------------------------------------------------------
(* Bounds *)

MaxQueue == 2      \* set is not called while the idle queue could grow past this
MaxAdds == 2       \* repeated add_change_callback calls counted per callback
MaxItems == 2      \* the items an item list holds at most
MaxHandles == 9    \* a controller is displayed while the playback manager has issued fewer handles
MaxKeyLen == 2     \* the characters of a column name at most

----------------------------------------------------------------------------
(* Values *)

FAKE == "FAKE VALUE"
Values == {"a", "b", FAKE}
Callbacks == {"cb1", "cb2"}
Themes == {"None", "theme"}
EventLoopThread == "eventloop"
OtherThread == "frontend"
Threads == {EventLoopThread, OtherThread}
NoOwner == "None"

NoneDict == [is_none |-> TRUE]
EmptyDict == [k \in {} |-> "None"]
IsNone(m) == m = NoneDict
HasKey(m, k) == k \in DOMAIN m
Put(m, k, v) == [x \in DOMAIN m \cup {k} |-> IF x = k THEN v ELSE m[x]]
DictGet(m, k, dflt) == IF k \in DOMAIN m THEN m[k] ELSE dflt

NoneSet == {"None"}     \* possible_values = None

PREF_A == [key |-> "k1", default |-> "dflt", possible_values |-> {"a"},
           failsafe_value |-> "fs", platformSpecific |-> FALSE]
PREF_B == [key |-> "k2", default |-> "dflt", possible_values |-> NoneSet,
           failsafe_value |-> "None", platformSpecific |-> TRUE]
APP_PLATFORM == [key |-> "appPlatform", default |-> "None", possible_values |-> NoneSet,
                 failsafe_value |-> "None", platformSpecific |-> FALSE]
NoDesc == [key |-> "None", default |-> "None", possible_values |-> NoneSet,
           failsafe_value |-> "None", platformSpecific |-> FALSE]

Descriptors == {PREF_A, PREF_B}

(* Collaborators outside config.py *)
AppVars == ("appPlatform" :> "linux")
ThemeVars(theme) == IF theme = "theme" THEN ("k1" :> "th") ELSE EmptyDict
ConfigfileContains(cf, key, use_theme_data) ==
    (use_theme_data /\ HasKey(ThemeVars(cf), key)) \/ HasKey(AppVars, key)
ConfigfileGet(cf, key, use_theme_data) ==
    IF use_theme_data /\ HasKey(ThemeVars(cf), key) THEN ThemeVars(cf)[key] ELSE AppVars[key]
PlatformGet(d) == "plat"
StoreChoices == {NoneDict, ("k1" :> "b")}

----------------------------------------------------------------------------
(* Frames *)

BaseFrame == [fn |-> "", pc |-> "", d |-> NoDesc, v |-> "None", theme |-> "None",
              use_theme_data |-> TRUE, cb |-> "None", ret |-> "None", sub |-> "None",
              key |-> "None", raised |-> FALSE, layer |-> "", changed |-> FALSE, held |-> "None",
              q0 |-> 0, snap |-> {}, seen |-> {}, implicit |-> FALSE, first |-> FALSE,
              before |-> {}]

Top(t) == stack[t][Len(stack[t])]
At(t, fn, pc) == stack[t] # <<>> /\ Top(t).fn = fn /\ Top(t).pc = pc
SetTop(t, f) == [stack EXCEPT ![t] = [@ EXCEPT ![Len(@)] = f]]
Push(t, f) == [stack EXCEPT ![t] = Append(@, f)]
PushOver(t, caller, f) == [stack EXCEPT ![t] = Append([@ EXCEPT ![Len(@)] = caller], f)]
Idle(t) == stack[t] = <<>>

----------------------------------------------------------------------------
(* Initial state of the store: the module as imported, nothing loaded *)

ConfigInit ==
    /\ data = NoneDict
    /\ temp = NoneDict
    /\ callbacks = {}
    /\ lockOwner = NoOwner
    /\ lockCount = 0
    /\ configfile = "unset"
    /\ appSerialKey = <<"appSerial">>
    /\ inUnitTests \in BOOLEAN
    /\ store \in (IF inUnitTests THEN {NoneDict} ELSE StoreChoices)
    /\ queue = <<>>
    /\ stack = [t \in Threads |-> <<>>]
    /\ written = EmptyDict
    /\ loaded = FALSE
    /\ base = NoneDict
    /\ regs = [c \in Callbacks |-> 0]

----------------------------------------------------------------------------
(* Calls: a thread that is not inside a call enters one *)

Call(t, f) ==
    /\ Idle(t)
    /\ stack' = Push(t, f)
    /\ UNCHANGED <<data, temp, callbacks, lockOwner, lockCount, configfile, appSerialKey,
                   store, inUnitTests, queue, written, loaded, base, regs, frontendVars>>

get(t, d, use_theme_data) ==
    Call(t, [BaseFrame EXCEPT !.fn = "get", !.pc = "acquire", !.d = d,
                              !.use_theme_data = use_theme_data])

set(t, d, v) ==
    /\ Len(queue) + Cardinality(callbacks) <= MaxQueue
    /\ Call(t, [BaseFrame EXCEPT !.fn = "set", !.pc = "acquire", !.d = d, !.v = v,
                                 !.q0 = Len(queue)])

load(t, theme) ==
    Call(t, [BaseFrame EXCEPT !.fn = "load", !.pc = "acquire", !.theme = theme,
                              !.first = ~loaded])

save(t) ==
    Call(t, [BaseFrame EXCEPT !.fn = "save", !.pc = "acquire"])

init_temporary(t) ==
    Call(t, [BaseFrame EXCEPT !.fn = "init_temporary", !.pc = "body"])

add_change_callback(t, cb) ==
    /\ regs[cb] < MaxAdds
    /\ Call(t, [BaseFrame EXCEPT !.fn = "add_change_callback", !.pc = "body", !.cb = cb,
                                 !.before = callbacks])

remove_change_callback(t, cb) ==
    Call(t, [BaseFrame EXCEPT !.fn = "remove_change_callback", !.pc = "body", !.cb = cb,
                              !.before = callbacks])

----------------------------------------------------------------------------
(* _lock = RLock() *)

\* a lock nobody checks before taking
LockFree_Always(t) == TRUE

\* a lock that its owner cannot take again
LockFree_NotReentrant(t) == lockOwner = NoOwner

\* RLock.acquire blocks while another thread owns the lock
LockFree(t) == lockOwner \in {NoOwner, t}

acquire(t) ==
    /\ stack[t] # <<>>
    /\ Top(t).pc = "acquire"
    /\ LockFree(t)
    /\ lockOwner' = t
    /\ lockCount' = lockCount + 1
    /\ stack' = SetTop(t, [Top(t) EXCEPT !.pc = IF Top(t).fn = "load" THEN "body" ELSE "check"])
    /\ UNCHANGED <<data, temp, callbacks, configfile, appSerialKey, store, inUnitTests,
                   queue, written, loaded, base, regs, frontendVars>>

release(t) ==
    /\ stack[t] # <<>>
    /\ Top(t).pc = "release"
    /\ lockCount' = lockCount - 1
    /\ lockOwner' = IF lockCount = 1 THEN NoOwner ELSE lockOwner
    /\ stack' = SetTop(t, [Top(t) EXCEPT !.pc = "return"])
    /\ UNCHANGED <<data, temp, callbacks, configfile, appSerialKey, store, inUnitTests,
                   queue, written, loaded, base, regs, frontendVars>>

----------------------------------------------------------------------------
(* _check_validity, called first in the body of get, set and save *)

\* "if not _data": an empty mapping counts as not loaded
NeedsLoad_Falsy == IsNone(data) \/ data = EmptyDict

\* line 149: if _data == None
NeedsLoad == IsNone(data)

AfterCheck(fn) == IF fn = "get" THEN "lookup" ELSE IF fn = "set" THEN "test" ELSE "body"

check_validity(t) ==
    /\ stack[t] # <<>>
    /\ Top(t).pc = "check"
    /\ LET caller == [Top(t) EXCEPT !.pc = AfterCheck(Top(t).fn)]
       IN  stack' = IF NeedsLoad
                    THEN PushOver(t, caller,
                                  [BaseFrame EXCEPT !.fn = "load", !.pc = "acquire",
                                                    !.theme = "None", !.implicit = TRUE,
                                                    !.first = ~loaded])
                    ELSE SetTop(t, caller)
    /\ UNCHANGED <<data, temp, callbacks, lockOwner, lockCount, configfile, appSerialKey,
                   store, inUnitTests, queue, written, loaded, base, regs, frontendVars>>

----------------------------------------------------------------------------
(* load *)

PlatformLoad == IF inUnitTests THEN EmptyDict ELSE IF IsNone(store) THEN EmptyDict ELSE store

load_body(t) ==
    /\ At(t, "load", "body")
    /\ configfile' = Top(t).theme
    /\ data' = PlatformLoad
    /\ loaded' = TRUE
    /\ written' = EmptyDict
    /\ base' = IF IsNone(temp) THEN base ELSE data'
    /\ stack' = SetTop(t, [Top(t) EXCEPT !.pc = "serial"])
    /\ UNCHANGED <<temp, callbacks, lockOwner, lockCount, appSerialKey, store, inUnitTests,
                   queue, regs, frontendVars>>

load_serial(t) ==
    /\ At(t, "load", "serial")
    /\ stack' = PushOver(t, [Top(t) EXCEPT !.pc = "serial_set"],
                         [BaseFrame EXCEPT !.fn = "get", !.pc = "acquire",
                                           !.d = APP_PLATFORM, !.use_theme_data = TRUE])
    /\ UNCHANGED <<data, temp, callbacks, lockOwner, lockCount, configfile, appSerialKey,
                   store, inUnitTests, queue, written, loaded, base, regs, frontendVars>>

load_serial_set(t) ==
    /\ At(t, "load", "serial_set")
    /\ appSerialKey' = <<"appSerial", Top(t).sub>>
    /\ stack' = SetTop(t, [Top(t) EXCEPT !.pc = "release"])
    /\ UNCHANGED <<data, temp, callbacks, lockOwner, lockCount, configfile, store,
                   inUnitTests, queue, written, loaded, base, regs, frontendVars>>

----------------------------------------------------------------------------
(* save *)

save_body(t) ==
    /\ At(t, "save", "body")
    /\ store' = IF inUnitTests THEN store ELSE data
    /\ stack' = SetTop(t, [Top(t) EXCEPT !.pc = "release"])
    /\ UNCHANGED <<data, temp, callbacks, lockOwner, lockCount, configfile, appSerialKey,
                   inUnitTests, queue, written, loaded, base, regs, frontendVars>>

----------------------------------------------------------------------------
(* get *)

\* the stored value returned without looking at possible_values
LowerLayers_NoFailsafe(d, use_theme_data) ==
    IF ~IsNone(data) /\ HasKey(data, d.key)
    THEN <<"data", data[d.key]>>
    ELSE IF d.platformSpecific
    THEN <<"platform", PlatformGet(d)>>
    ELSE IF ConfigfileContains(configfile, d.key, use_theme_data)
    THEN <<"configfile", ConfigfileGet(configfile, d.key, use_theme_data)>>
    ELSE <<"default", d.default>>

\* lines 113-128: the layers below the temporary settings, as <<layer, value>>
LowerLayers(d, use_theme_data) ==
    IF ~IsNone(data) /\ HasKey(data, d.key)
    THEN IF d.possible_values # NoneSet /\ data[d.key] \notin d.possible_values
         THEN <<"data", d.failsafe_value>>
         ELSE <<"data", data[d.key]>>
    ELSE IF d.platformSpecific
    THEN <<"platform", PlatformGet(d)>>
    ELSE IF ConfigfileContains(configfile, d.key, use_theme_data)
    THEN <<"configfile", ConfigfileGet(configfile, d.key, use_theme_data)>>
    ELSE <<"default", d.default>>

\* the temporary settings consulted after _data
InTemporary_AfterData(key) ==
    ~IsNone(temp) /\ temp # EmptyDict /\ HasKey(temp, key) /\ ~HasKey(data, key)

\* line 111: TEMPORARY_SETTINGS and descriptor.key in TEMPORARY_SETTINGS
InTemporary(key) == ~IsNone(temp) /\ temp # EmptyDict /\ HasKey(temp, key)

get_lookup(t) ==
    /\ At(t, "get", "lookup")
    /\ LET f == Top(t)
           r == LowerLayers(f.d, f.use_theme_data)
       IN  stack' = IF InTemporary(f.d.key)
                    THEN SetTop(t, [f EXCEPT !.pc = "temporary"])
                    ELSE SetTop(t, [f EXCEPT !.pc = "release", !.layer = r[1], !.ret = r[2]])
    /\ UNCHANGED <<data, temp, callbacks, lockOwner, lockCount, configfile, appSerialKey,
                   store, inUnitTests, queue, written, loaded, base, regs, frontendVars>>

\* line 112: return TEMPORARY_SETTINGS[descriptor.key]; KeyError when the
\* global was rebound since line 111
get_temporary(t) ==
    /\ At(t, "get", "temporary")
    /\ LET f == Top(t)
       IN  stack' = IF HasKey(temp, f.d.key)
                    THEN SetTop(t, [f EXCEPT !.pc = "release", !.layer = "temporary",
                                             !.ret = temp[f.d.key]])
                    ELSE SetTop(t, [f EXCEPT !.pc = "release", !.raised = TRUE])
    /\ UNCHANGED <<data, temp, callbacks, lockOwner, lockCount, configfile, appSerialKey,
                   store, inUnitTests, queue, written, loaded, base, regs, frontendVars>>

----------------------------------------------------------------------------
(* set *)

Absent == "<absent>"

\* "if TEMPORARY_SETTINGS": the empty override layer counts as no temporary mode
TemporaryMode_Truthy == ~IsNone(temp) /\ temp # EmptyDict

\* line 137: if TEMPORARY_SETTINGS is not None
TemporaryMode == ~IsNone(temp)

set_test(t) ==
    /\ At(t, "set", "test")
    /\ stack' = SetTop(t, [Top(t) EXCEPT !.pc = IF TemporaryMode THEN "tcmp" ELSE "dcmp"])
    /\ UNCHANGED <<data, temp, callbacks, lockOwner, lockCount, configfile, appSerialKey,
                   store, inUnitTests, queue, written, loaded, base, regs, frontendVars>>

\* line 138: TEMPORARY_SETTINGS.get(descriptor.key, "FAKE VALUE") != value
TemporaryDiffers(key, v) == DictGet(temp, key, FAKE) # v

set_tcmp(t) ==
    /\ At(t, "set", "tcmp")
    /\ LET f == Top(t)
       IN  stack' = SetTop(t, [f EXCEPT !.held = DictGet(temp, f.d.key, Absent),
                                        !.layer = "temporary",
                                        !.pc = IF TemporaryDiffers(f.d.key, f.v)
                                               THEN "twrite" ELSE "release"])
    /\ UNCHANGED <<data, temp, callbacks, lockOwner, lockCount, configfile, appSerialKey,
                   store, inUnitTests, queue, written, loaded, base, regs, frontendVars>>

\* line 139: TEMPORARY_SETTINGS[descriptor.key] = value
set_twrite(t) ==
    /\ At(t, "set", "twrite")
    /\ temp' = Put(temp, Top(t).d.key, Top(t).v)
    /\ stack' = SetTop(t, [Top(t) EXCEPT !.changed = TRUE, !.pc = "iter"])
    /\ UNCHANGED <<data, callbacks, lockOwner, lockCount, configfile, appSerialKey,
                   store, inUnitTests, queue, written, loaded, base, regs, frontendVars>>

\* line 142: descriptor.key not in _data or _data[descriptor.key] != value
DataDiffers(key, v) == ~HasKey(data, key) \/ data[key] # v

set_dcmp(t) ==
    /\ At(t, "set", "dcmp")
    /\ LET f == Top(t)
       IN  stack' = SetTop(t, [f EXCEPT !.held = DictGet(data, f.d.key, Absent),
                                        !.layer = "data",
                                        !.pc = IF DataDiffers(f.d.key, f.v)
                                               THEN "dwrite" ELSE "release"])
    /\ UNCHANGED <<data, temp, callbacks, lockOwner, lockCount, configfile, appSerialKey,
                   store, inUnitTests, queue, written, loaded, base, regs, frontendVars>>

\* line 143: _data[descriptor.key] = value
set_dwrite(t) ==
    /\ At(t, "set", "dwrite")
    /\ data' = Put(data, Top(t).d.key, Top(t).v)
    /\ stack' = SetTop(t, [Top(t) EXCEPT !.changed = TRUE, !.pc = "iter"])
    /\ UNCHANGED <<temp, callbacks, lockOwner, lockCount, configfile, appSerialKey,
                   store, inUnitTests, queue, written, loaded, base, regs, frontendVars>>

----------------------------------------------------------------------------
(* _notify_listeners: for callback in _callbacks: eventloop.add_idle(...) *)

\* line 154, the iterator over _callbacks is created
notify_iter(t) ==
    /\ At(t, "set", "iter")
    /\ stack' = SetTop(t, [Top(t) EXCEPT !.snap = callbacks, !.seen = {}, !.pc = "next"])
    /\ UNCHANGED <<data, temp, callbacks, lockOwner, lockCount, configfile, appSerialKey,
                   store, inUnitTests, queue, written, loaded, base, regs, frontendVars>>

Stop == "<stop>"
SizeError == "<RuntimeError>"

\* What one step of the iterator can give.  A set whose size changed under the
\* iterator raises RuntimeError; a set changed to another of the same size is
\* iterated in an order the iterator does not control: it can give any
\* callback now in the set that it has not given, or end.
NextCallback(f) ==
    IF Cardinality(callbacks) # Cardinality(f.snap) THEN {SizeError}
    ELSE IF callbacks = f.snap
    THEN (IF f.snap \ f.seen = {} THEN {Stop} ELSE f.snap \ f.seen)
    ELSE (callbacks \ f.seen) \cup {Stop}

\* the callback called on the spot, nothing queued
AddIdle_Direct(q, cb, key, value) == q

\* line 155: eventloop.add_idle(callback, ..., args=(key, value))
AddIdle(q, cb, key, value) == Append(q, <<cb, key, value>>)

notify_next(t) ==
    /\ At(t, "set", "next")
    /\ LET f == Top(t)
       IN  \E o \in NextCallback(f) :
              /\ queue' = IF o \in {Stop, SizeError} THEN queue
                          ELSE AddIdle(queue, o, f.d.key, f.v)
              /\ stack' = IF o = SizeError
                          THEN SetTop(t, [f EXCEPT !.raised = TRUE, !.pc = "release"])
                          ELSE IF o = Stop
                          THEN SetTop(t, [f EXCEPT !.pc = "release"])
                          ELSE SetTop(t, [f EXCEPT !.seen = @ \cup {o}])
    /\ UNCHANGED <<data, temp, callbacks, lockOwner, lockCount, configfile, appSerialKey,
                   store, inUnitTests, written, loaded, base, regs, frontendVars>>

----------------------------------------------------------------------------
(* init_temporary, add_change_callback, remove_change_callback: no lock *)

init_temporary_body(t) ==
    /\ At(t, "init_temporary", "body")
    /\ temp' = EmptyDict
    /\ base' = data
    /\ written' = EmptyDict
    /\ stack' = SetTop(t, [Top(t) EXCEPT !.pc = "return"])
    /\ UNCHANGED <<data, callbacks, lockOwner, lockCount, configfile, appSerialKey,
                   store, inUnitTests, queue, loaded, regs, frontendVars>>

\* line 70: _callbacks.add(callback)
CallbacksAdd(cbs, cb) == cbs \cup {cb}

add_change_callback_body(t) ==
    /\ At(t, "add_change_callback", "body")
    /\ callbacks' = CallbacksAdd(callbacks, Top(t).cb)
    /\ regs' = [regs EXCEPT ![Top(t).cb] = @ + 1]
    /\ stack' = SetTop(t, [Top(t) EXCEPT !.before = callbacks, !.pc = "return"])
    /\ UNCHANGED <<data, temp, lockOwner, lockCount, configfile, appSerialKey,
                   store, inUnitTests, queue, written, loaded, base, frontendVars>>

\* every callback dropped, not the one given
CallbacksDiscard_Clear(cbs, cb) == {}

\* line 75: _callbacks.discard(callback)
CallbacksDiscard(cbs, cb) == cbs \ {cb}

remove_change_callback_body(t) ==
    /\ At(t, "remove_change_callback", "body")
    /\ callbacks' = CallbacksDiscard(callbacks, Top(t).cb)
    /\ regs' = [regs EXCEPT ![Top(t).cb] = 0]
    /\ stack' = SetTop(t, [Top(t) EXCEPT !.before = callbacks, !.pc = "return"])
    /\ UNCHANGED <<data, temp, lockOwner, lockCount, configfile, appSerialKey,
                   store, inUnitTests, queue, written, loaded, base, frontendVars>>

----------------------------------------------------------------------------
(* The event loop takes the next idle task and calls the callback *)

RunIdle(t) ==
    /\ t = EventLoopThread
    /\ Idle(t)
    /\ queue # <<>>
    /\ queue' = Tail(queue)
    /\ stack' = Push(t, [BaseFrame EXCEPT !.fn = "callback", !.pc = "return",
                                          !.cb = Head(queue)[1], !.key = Head(queue)[2],
                                          !.v = Head(queue)[3]])
    /\ UNCHANGED <<data, temp, callbacks, lockOwner, lockCount, configfile, appSerialKey,
                   store, inUnitTests, written, loaded, base, regs, frontendVars>>

----------------------------------------------------------------------------
(* A call returns to its caller: the result, or the exception, is handed to
   the frame below; every call site in config.py is inside try/finally, so an
   exception takes the caller to its release. *)

Return(t) ==
    /\ stack[t] # <<>>
    /\ Top(t).pc = "return"
    /\ LET f == Top(t)
           n == Len(stack[t])
           caller == stack[t][n - 1]
           resumed == [caller EXCEPT !.sub = f.ret,
                                     !.raised = f.raised,
                                     !.pc = IF f.raised THEN "release" ELSE caller.pc]
       IN  /\ stack' = IF n = 1 THEN [stack EXCEPT ![t] = <<>>]
                       ELSE [stack EXCEPT ![t] = Append(SubSeq(stack[t], 1, n - 2), resumed)]
           /\ written' = IF f.fn = "set" /\ ~f.raised
                         THEN Put(written, f.d.key, f.v) ELSE written
    /\ UNCHANGED <<data, temp, callbacks, lockOwner, lockCount, configfile, appSerialKey,
                   store, inUnitTests, queue, loaded, base, regs, frontendVars>>

----------------------------------------------------------------------------
(* frontends/widgets/itemlistcontroller.py.  The frontend runs on one
   thread and a handler runs to completion, so each handler is one action:
   it takes the controller's attributes, the item list and the application
   objects from where the last handler left them. *)

Controllers == {"A", "B"}
Views == {"list", "standard"}
Ids == 1..MaxItems

\* Python's None, and a value that is not None
None == <<>>
Some(x) == <<x>>

\* the item lists: the ids of the items, in the list's order
Models ==
    {m \in UNION {[1..n -> Ids] : n \in 0..MaxItems} :
        \A i, j \in DOMAIN m : i # j => m[i] # m[j]}

IdsOf(m) == {m[i] : i \in DOMAIN m}

ModelIds(k) == IdsOf(k.model)

\* item_list.get_iter, get_item, model.get_info, model.iter_for_id: the
\* lookup of an id succeeds for the items of the list and raises KeyError
\* for every other id
InModel(k, id) == id \in ModelIds(k)

ItemStates == {"downloading", "not-downloaded"}

ItemInfo(state, remote, device, playable, container) ==
    [state |-> state, remote |-> remote, device |-> device,
     is_playable |-> playable, is_container_item |-> container,
     downloaded |-> FALSE, download_info |-> None]

\* a signal emitter (signals.SignalEmitter): connect hands out the next
\* handle, disconnect drops it; disc counts the disconnect calls per handle
EmitterNames == {"playback", "config", "trackerA", "trackerB"}

Tracker(c) == IF c = "A" THEN "trackerA" ELSE "trackerB"

NewEmitter == [issued |-> <<>>, live |-> {}, disc |-> <<>>]

Connect(E, sig, c) ==
    [issued |-> Append(E.issued, [sig |-> sig, c |-> c]),
     live |-> E.live \cup {Len(E.issued) + 1},
     disc |-> Append(E.disc, 0)]

RECURSIVE ConnectAll(_, _, _)
ConnectAll(E, sigs, c) ==
    IF sigs = <<>> THEN E
    ELSE ConnectAll(Connect(E, Head(sigs), c), Tail(sigs), c)

NewHandles(E, n) == [i \in 1..n |-> Len(E.issued) + i]

Disconnect(E, h) ==
    [E EXCEPT !.live = @ \ {h}, !.disc[h] = IF @ < 2 THEN @ + 1 ELSE @]

RECURSIVE DisconnectAll(_, _)
DisconnectAll(E, hs) ==
    IF hs = <<>> THEN E
    ELSE DisconnectAll(Disconnect(E, Head(hs)), Tail(hs))

ConnectedHandles(E, sig, c) ==
    {h \in E.live : E.issued[h] = [sig |-> sig, c |-> c]}

Connected(E, sig, c) == ConnectedHandles(E, sig, c) # {}

TrackerSignals == <<"items-will-change", "initial-list", "items-changed">>
PlaybackSignals == <<"selecting-file", "will-stop", "will-play">>
DisplaySignals == <<"update-shuffle", "update-repeat", "did-stop">>

\* what a handler leaves behind for the properties to look at
NoOut(op, c) ==
    [op |-> op, c |-> c, id |-> 0, name |-> "", raised |-> "None",
     sent |-> <<>>, acts |-> <<>>, soft |-> FALSE, sm |-> None, S |-> None,
     ndisc |-> 0, nconn |-> 0, sched |-> 0, started |-> 0,
     changed |-> FALSE, pre |-> FALSE]

Message(m, id) == [m |-> m, id |-> id]

NoHist ==
    [pending |-> FALSE, ordered |-> TRUE, willRan |-> FALSE, S |-> None,
     tracking |-> FALSE, starts |-> [i \in Ids |-> 0]]

----------------------------------------------------------------------------
(* ItemListController: selection across changes of the item list *)

GetSelectedIds(k) == k.selection[k.selected_view]

RestoreSelectedIds_NoLookup(k, ids) ==
    [k EXCEPT !.selection[k.selected_view] = ids]

RestoreSelectedIds(k, ids) ==
    [k EXCEPT !.selection[k.selected_view] = {i \in ids : InModel(k, i)}]

RestoreSelection(k, w) ==
    IF w.selection # None /\ w.selection[1] # {}
    THEN RestoreSelectedIds(k, w.selection[1])
    ELSE k

ItemListWillChange(k) ==
    [k EXCEPT !._selection_to_restore = Some(GetSelectedIds(k)),
              !.selection[k.selected_view] = {}]

IsNotNone_Truthy(x) == x # None /\ x[1] # {}

IsNotNone(x) == x # None

SendModelChanged(k) ==
    IF IsNotNone(k._selection_to_restore)
    THEN [RestoreSelectedIds(k, k._selection_to_restore[1])
             EXCEPT !._selection_to_restore = None]
    ELSE k

SoftFailure(k) == ~IsNotNone(k._selection_to_restore)

\* what send_model_changed left: the current view's selection and the
\* selection still to restore
AfterSend(k) ==
    Some([sel |-> GetSelectedIds(SendModelChanged(k)),
          str |-> SendModelChanged(k)._selection_to_restore,
          ids |-> ModelIds(k)])

UpdateResumeButton(k, w) ==
    IF ~k.show_resume_playing_button THEN k
    ELSE LET found == w.last_played # None /\ InModel(k, w.last_played[1])
         IN IF ~found \/ ~info[w.last_played[1]].is_playable \/ k._playing_items
            THEN [k EXCEPT !.resume_button = None]
            ELSE [k EXCEPT !.resume_button = w.last_played]

HandleItemListChanges(k, w) == UpdateResumeButton(SendModelChanged(k), w)

HandleItemList(k, w) ==
    LET k2 == [HandleItemListChanges(k, w) EXCEPT !._got_initial_list = TRUE]
        r == [k |-> k2, raised |-> "None", acts |-> <<>>,
              soft |-> SoftFailure(k), sm |-> AfterSend(k)]
    IN IF k2._needs_scroll = None
       THEN [r EXCEPT !.k = RestoreSelection(k2, w)]
       ELSE IF ~InModel(k2, k2._needs_scroll[1])
            THEN [r EXCEPT !.raised = "KeyError"]
            ELSE [r EXCEPT !.k = RestoreSelection([k2 EXCEPT !._needs_scroll = None], w),
                           !.acts = <<"scroll_to_iter">>]

\* ItemListController.__init__ and what its subclass sets afterwards
NewController(view) ==
    [selected_view |-> view, model |-> <<>>,
     selection |-> [v \in Views |-> {}],
     _selection_to_restore |-> None, _got_initial_list |-> FALSE,
     _needs_scroll |-> None, _playing_items |-> FALSE,
     handles_set |-> FALSE, shuffle_handle |-> None, repeat_handle |-> None,
     stop_handle |-> None, config_change_handle |-> None,
     item_tracker |-> TRUE, _item_tracker_callbacks |-> <<>>,
     _playback_callbacks |-> <<>>, currently_animating |-> {},
     throbber |-> [i \in Ids |-> "none"],
     show_resume_playing_button |-> FALSE, resume_button |-> None]

Constructed(w, show, m) ==
    LET k0 == [NewController(w.selected_view) EXCEPT !.model = m]
        k1 == IF m = <<>> THEN k0
              ELSE HandleItemList(ItemListWillChange(k0), w).k
    IN [k1 EXCEPT !.show_resume_playing_button = show]

NewWidgetState(view) ==
    [selected_view |-> view, selection |-> None, last_played |-> None,
     shuffle |-> FALSE, repeat |-> FALSE]

K(c) == ctl[c]

SetHist(c, h) == hist' = [hist EXCEPT ![c] = h]

\* the tracker emits "items-will-change" before it touches the item list
handle_items_will_change(c) ==
    /\ Connected(emitters[Tracker(c)], "items-will-change", c)
    /\ ctl' = [ctl EXCEPT ![c] = ItemListWillChange(K(c))]
    /\ SetHist(c, [hist[c] EXCEPT !.pending = TRUE, !.willRan = TRUE,
                                  !.S = Some(GetSelectedIds(K(c)))])
    /\ out' = NoOut("handle_items_will_change", c)
    /\ UNCHANGED <<configVars, wstate, info, emitters, pm, mgr, timers, saved_items>>

\* the tracker adds, removes and reorders items between its two signals; a
\* row that goes takes its place in the views' selections with it
tracker_update(c, m) ==
    /\ hist[c].pending
    /\ m # K(c).model
    /\ ctl' = [ctl EXCEPT ![c].model = m,
                          ![c].selection = [v \in Views |-> @[v] \cap IdsOf(m)]]
    /\ out' = NoOut("tracker_update", c)
    /\ UNCHANGED <<configVars, wstate, info, emitters, pm, mgr, timers, saved_items, hist>>

handle_item_list(c) ==
    /\ Connected(emitters[Tracker(c)], "initial-list", c)
    /\ LET r == HandleItemList(K(c), wstate[c])
       IN /\ ctl' = [ctl EXCEPT ![c] = r.k]
          /\ out' = [NoOut("handle_item_list", c) EXCEPT
                        !.raised = r.raised, !.acts = r.acts, !.soft = r.soft,
                        !.sm = r.sm, !.S = hist[c].S, !.pre = hist[c].willRan]
    /\ SetHist(c, [hist[c] EXCEPT !.pending = FALSE, !.willRan = FALSE, !.S = None,
                                  !.ordered = @ /\ hist[c].pending])
    /\ UNCHANGED <<configVars, wstate, info, emitters, pm, mgr, timers, saved_items>>

handle_items_changed(c) ==
    /\ Connected(emitters[Tracker(c)], "items-changed", c)
    /\ ctl' = [ctl EXCEPT ![c] = HandleItemListChanges(K(c), wstate[c])]
    /\ out' = [NoOut("handle_items_changed", c) EXCEPT
                  !.soft = SoftFailure(K(c)), !.sm = AfterSend(K(c)),
                  !.S = hist[c].S, !.pre = hist[c].willRan]
    /\ SetHist(c, [hist[c] EXCEPT !.pending = FALSE, !.willRan = FALSE, !.S = None,
                                  !.ordered = @ /\ hist[c].pending])
    /\ UNCHANGED <<configVars, wstate, info, emitters, pm, mgr, timers, saved_items>>

\* the user picks another sort: the list is reordered in place
on_sort_changed(c, m) ==
    /\ IdsOf(m) = ModelIds(K(c))
    /\ LET k1 == [ItemListWillChange(K(c)) EXCEPT !.model = m]
       IN /\ ctl' = [ctl EXCEPT ![c] = SendModelChanged(k1)]
          /\ out' = [NoOut("on_sort_changed", c) EXCEPT
                        !.soft = SoftFailure(k1), !.sm = AfterSend(k1),
                        !.S = Some(GetSelectedIds(K(c))), !.pre = TRUE]
    /\ SetHist(c, [hist[c] EXCEPT !.willRan = FALSE, !.S = None,
                                  !.ordered = @ /\ ~hist[c].pending])
    /\ UNCHANGED <<configVars, wstate, info, emitters, pm, mgr, timers, saved_items>>

\* the user changes the selection of the view on display
on_selection_changed(c, S) ==
    /\ ~hist[c].pending
    /\ S \subseteq ModelIds(K(c))
    /\ S # GetSelectedIds(K(c))
    /\ ctl' = [ctl EXCEPT ![c].selection[K(c).selected_view] = S]
    /\ out' = NoOut("on_selection_changed", c)
    /\ UNCHANGED <<configVars, wstate, info, emitters, pm, mgr, timers, saved_items, hist>>

SameView_Never(k, view) == FALSE

SameView(k, view) == view = k.selected_view

\* get_selection_as_strings raises WidgetActionError when the toolkit cannot
\* give the selection (ok = FALSE)
set_view(c, view, ok) ==
    /\ LET k == K(c)
           k1 == IF ok THEN [k EXCEPT !.selection[view] = GetSelectedIds(k)] ELSE k
       IN IF SameView(k, view)
          THEN UNCHANGED <<ctl, wstate>>
          ELSE /\ ctl' = [ctl EXCEPT ![c] = [k1 EXCEPT !.selected_view = view]]
               /\ wstate' = [wstate EXCEPT ![c].selected_view = view]
    /\ out' = [NoOut("set_view", c) EXCEPT
                  !.name = view, !.pre = (view = K(c).selected_view),
                  !.S = IF ok THEN Some(GetSelectedIds(K(c))) ELSE None,
                  !.acts = IF SameView(K(c), view) THEN <<>>
                           ELSE <<"switch_to_view", "set_selected_view">>]
    /\ UNCHANGED <<configVars, info, emitters, pm, mgr, timers, saved_items, hist>>

scroll_to_item(c, id) ==
    /\ LET k == K(c)
       IN IF k._got_initial_list
          THEN /\ UNCHANGED ctl
               /\ out' = [NoOut("scroll_to_item", c) EXCEPT
                             !.id = id,
                             !.raised = IF InModel(k, id) THEN "None" ELSE "KeyError",
                             !.acts = IF InModel(k, id) THEN <<"scroll_to_iter">> ELSE <<>>]
          ELSE /\ ctl' = [ctl EXCEPT ![c]._needs_scroll = Some(id)]
               /\ out' = [NoOut("scroll_to_item", c) EXCEPT !.id = id]
    /\ UNCHANGED <<configVars, wstate, info, emitters, pm, mgr, timers, saved_items, hist>>

----------------------------------------------------------------------------
(* ItemListController: tracking the item list and the playback *)

AlreadyTracking_Never(k) == FALSE

AlreadyTracking(k) == k._item_tracker_callbacks # <<>>

\* track_item_lists then track_playback; an exception of the first leaves
\* the second uncalled
start_tracking(c) ==
    /\ LET k == K(c)
           T == emitters[Tracker(c)]
           P == emitters["playback"]
           o == [NoOut("start_tracking", c) EXCEPT !.pre = k._item_tracker_callbacks # <<>>]
       IN IF AlreadyTracking(k)
          THEN /\ out' = [o EXCEPT !.raised = "AssertionError"]
               /\ UNCHANGED <<ctl, emitters, hist>>
          ELSE IF ~k.item_tracker
          THEN /\ out' = [o EXCEPT !.raised = "AttributeError"]
               /\ UNCHANGED <<ctl, emitters, hist>>
          ELSE /\ ctl' = [ctl EXCEPT
                    ![c]._item_tracker_callbacks = NewHandles(T, Len(TrackerSignals)),
                    ![c]._playback_callbacks = @ \o NewHandles(P, Len(PlaybackSignals))]
               /\ emitters' = [emitters EXCEPT
                    ![Tracker(c)] = ConnectAll(T, TrackerSignals, c),
                    !["playback"] = ConnectAll(P, PlaybackSignals, c)]
               /\ out' = [o EXCEPT !.nconn = Len(TrackerSignals) + Len(PlaybackSignals)]
               /\ SetHist(c, [hist[c] EXCEPT !.tracking = TRUE])
    /\ UNCHANGED <<configVars, wstate, info, pm, mgr, timers, saved_items>>

CancelHandles_First(E, hs) == IF hs = <<>> THEN E ELSE Disconnect(E, Head(hs))

CancelHandles(E, hs) == DisconnectAll(E, hs)

\* cancel_track_item_lists: nothing to do once the tracker is gone
CancelTrackItemLists(k, T) ==
    IF ~k.item_tracker
    THEN [k |-> k, T |-> T, ndisc |-> 0]
    ELSE [k |-> [k EXCEPT !.item_tracker = FALSE, !._item_tracker_callbacks = <<>>],
          T |-> CancelHandles(T, k._item_tracker_callbacks),
          ndisc |-> Len(k._item_tracker_callbacks)]

CancelTrackPlayback(k, P) ==
    [k |-> [k EXCEPT !._playback_callbacks = <<>>],
     P |-> CancelHandles(P, k._playback_callbacks),
     ndisc |-> Len(k._playback_callbacks)]

\* cancel_track_item_lists then cancel_track_playback
stop_tracking(c) ==
    /\ LET r1 == CancelTrackItemLists(K(c), emitters[Tracker(c)])
           r2 == CancelTrackPlayback(r1.k, emitters["playback"])
       IN /\ ctl' = [ctl EXCEPT ![c] = r2.k]
          /\ emitters' = [emitters EXCEPT ![Tracker(c)] = r1.T, !["playback"] = r2.P]
          /\ out' = [NoOut("stop_tracking", c) EXCEPT
                        !.ndisc = r1.ndisc + r2.ndisc, !.pre = hist[c].tracking]
    /\ SetHist(c, [hist[c] EXCEPT !.tracking = FALSE])
    /\ UNCHANGED <<configVars, wstate, info, pm, mgr, timers, saved_items>>

----------------------------------------------------------------------------
(* ItemListController.on_displayed, no_longer_displayed and the
   ItemListControllerManager *)

NoController == "none"

HasPlaylist_Never(p) == FALSE

\* app.playback_manager.playlist is not empty
HasPlaylist(p) == p.playlist

\* the start of on_displayed: the tab's saved shuffle and repeat
LoadShuffleRepeat(p, w) == [p EXCEPT !.shuffle = w.shuffle, !.repeat = w.repeat]

IsDisplayed_Any(c) == TRUE

\* app.item_list_controller_manager.displayed == self
IsDisplayed(c) == mgr = c

OnDisplayedHandles(k, P, C) ==
    [k EXCEPT !.handles_set = TRUE,
              !.shuffle_handle = Some(Len(P.issued) + 1),
              !.repeat_handle = Some(Len(P.issued) + 2),
              !.stop_handle = Some(Len(P.issued) + 3),
              !.config_change_handle = Some(Len(C.issued) + 1)]

DisconnectIf(E, handle) == IF handle # None THEN Disconnect(E, handle[1]) ELSE E

Count(handle) == IF handle # None THEN 1 ELSE 0

\* no_longer_displayed: the selection is saved once the initial list has
\* come; the three playback handles are read as on_displayed left them
NoLongerDisplayed(k, w, P, C) ==
    LET w1 == IF k._got_initial_list
              THEN [w EXCEPT !.selection = Some(GetSelectedIds(k))] ELSE w
    IN IF ~k.handles_set
       THEN [k |-> k, w |-> w1, P |-> P, C |-> C, raised |-> "AttributeError", ndisc |-> 0]
       ELSE [k |-> [k EXCEPT !.config_change_handle = None],
             w |-> w1,
             P |-> DisconnectIf(DisconnectIf(DisconnectIf(P, k.shuffle_handle),
                                             k.repeat_handle), k.stop_handle),
             C |-> DisconnectIf(C, k.config_change_handle),
             raised |-> "None",
             ndisc |-> Count(k.shuffle_handle) + Count(k.repeat_handle)
                       + Count(k.stop_handle) + Count(k.config_change_handle)]

controller_displayed(c) ==
    /\ Len(emitters["playback"].issued) + Len(DisplaySignals) <= MaxHandles
    /\ mgr' = c
    /\ ctl' = [ctl EXCEPT ![c] = OnDisplayedHandles(K(c), emitters["playback"], emitters["config"])]
    /\ pm' = IF ~HasPlaylist(pm) THEN LoadShuffleRepeat(pm, wstate[c]) ELSE pm
    /\ emitters' = [emitters EXCEPT
          !["playback"] = ConnectAll(@, DisplaySignals, c),
          !["config"] = Connect(@, "changed", c)]
    /\ out' = [NoOut("controller_displayed", c) EXCEPT !.nconn = Len(DisplaySignals) + 1]
    /\ UNCHANGED <<configVars, wstate, info, timers, saved_items, hist>>

controller_no_longer_displayed(c) ==
    /\ mgr' = NoController
    /\ IF c # mgr
       THEN /\ out' = NoOut("controller_no_longer_displayed", c)
            /\ UNCHANGED <<ctl, wstate, emitters>>
       ELSE LET r == NoLongerDisplayed(K(c), wstate[c], emitters["playback"], emitters["config"])
            IN /\ ctl' = [ctl EXCEPT ![c] = r.k]
               /\ wstate' = [wstate EXCEPT ![c] = r.w]
               /\ emitters' = [emitters EXCEPT !["playback"] = r.P, !["config"] = r.C]
               /\ out' = [NoOut("controller_no_longer_displayed", c) EXCEPT
                             !.raised = r.raised, !.ndisc = r.ndisc, !.pre = TRUE]
    /\ UNCHANGED <<configVars, info, pm, timers, saved_items, hist>>

undisplay_controller ==
    /\ mgr # NoController
    /\ controller_no_longer_displayed(mgr)

----------------------------------------------------------------------------
(* AnimationManager and ThrobberAnimationManager *)

ContinueAnimation_Always(i) == TRUE

\* continue_animation's answer is not False
ContinueAnimation(i) == info[i].state = "downloading"

IsAnimating_Never(k, i) == FALSE

IsAnimating(k, i) == i \in k.currently_animating

\* on_throbber_drawn: the renderer drew the throbber of a row
on_throbber_drawn(c, i) ==
    /\ InModel(K(c), i)
    /\ IF IsAnimating(K(c), i)
       THEN /\ out' = [NoOut("on_throbber_drawn", c) EXCEPT
                          !.id = i, !.pre = i \in K(c).currently_animating]
            /\ UNCHANGED <<ctl, timers, hist>>
       ELSE /\ ctl' = [ctl EXCEPT ![c].currently_animating = @ \cup {i}]
            /\ timers' = [timers EXCEPT ![c][i] = @ + 1]
            /\ SetHist(c, [hist[c] EXCEPT !.starts[i] = @ + 1])
            /\ out' = [NoOut("on_throbber_drawn", c) EXCEPT
                          !.id = i, !.pre = i \in K(c).currently_animating,
                          !.sched = 1, !.started = 1]
    /\ UNCHANGED <<configVars, wstate, info, emitters, pm, mgr, saved_items>>

\* a timer fires: _do_iteration
do_iteration(c, i) ==
    /\ timers[c][i] > 0
    /\ LET k == K(c)
           gone == [k EXCEPT !.currently_animating = @ \ {i}]
           o == [NoOut("do_iteration", c) EXCEPT
                    !.id = i, !.pre = InModel(k, i) /\ info[i].state = "downloading"]
       IN IF ~InModel(k, i)
          THEN /\ ctl' = [ctl EXCEPT ![c] = gone]
               /\ timers' = [timers EXCEPT ![c][i] = @ - 1]
               /\ SetHist(c, [hist[c] EXCEPT !.starts[i] = 0])
               /\ out' = [o EXCEPT !.raised = IF i \in k.currently_animating
                                               THEN "None" ELSE "KeyError"]
          ELSE IF ContinueAnimation(i)
          THEN /\ ctl' = [ctl EXCEPT ![c].throbber[i] = "updated"]
               /\ out' = [o EXCEPT !.sched = 1]
               /\ UNCHANGED <<timers, hist>>
          ELSE /\ ctl' = [ctl EXCEPT ![c] = [gone EXCEPT !.throbber[i] = "finished"]]
               /\ timers' = [timers EXCEPT ![c][i] = @ - 1]
               /\ SetHist(c, [hist[c] EXCEPT !.starts[i] = 0])
               /\ out' = [o EXCEPT !.raised = IF i \in k.currently_animating
                                               THEN "None" ELSE "KeyError"]
    /\ UNCHANGED <<configVars, wstate, info, emitters, pm, mgr, saved_items>>

\* the backend reports another state for an item
item_state_changed(i, s) ==
    /\ info[i].state # s
    /\ info' = [info EXCEPT ![i].state = s]
    /\ out' = [NoOut("item_state_changed", "A") EXCEPT !.id = i]
    /\ UNCHANGED <<configVars, ctl, wstate, emitters, pm, mgr, timers, saved_items, hist>>

----------------------------------------------------------------------------
(* ItemListController: playing items, the resume button, the hotspots *)

CanPlayItems_Always(k) == TRUE

CanPlayItems(k) == \E i \in ModelIds(k) : info[i].is_playable

Stopped(p) == [p EXCEPT !.playlist = FALSE, !.is_playing = FALSE]

\* _play_item_list(start_id): start is None or Some(id)
PlayItemList(k, w, p, start) ==
    LET r == [k |-> k, pm |-> p, acts |-> <<>>, raised |-> "None"]
    IN IF start # None /\ ~InModel(k, start[1])
       THEN [r EXCEPT !.raised = "KeyError"]
       ELSE IF start = None /\ ~CanPlayItems(k)
       THEN r
       ELSE IF start # None /\ info[start[1]].is_container_item
       THEN [r EXCEPT !.pm = Stopped(p),
                      !.acts = <<"stop", "push_folder_contents_display">>]
       ELSE [r EXCEPT !.k = [k EXCEPT !._playing_items = TRUE],
                      !.pm = [playlist |-> TRUE, is_playing |-> TRUE,
                              shuffle |-> w.shuffle, repeat |-> w.repeat],
                      !.acts = <<"stop", "start", "set_shuffle", "set_repeat">>]

on_resume_playing(c) ==
    /\ LET k == K(c)
           last == wstate[c].last_played
           o == [NoOut("on_resume_playing", c) EXCEPT
                    !.id = IF last = None THEN 0 ELSE last[1],
                    !.pre = last # None /\ ~InModel(k, last[1])]
       IN IF last = None \/ ~InModel(k, last[1])
          THEN /\ out' = o
               /\ UNCHANGED <<ctl, pm>>
          ELSE LET r == PlayItemList(k, wstate[c], pm, last)
               IN /\ ctl' = [ctl EXCEPT ![c] = r.k]
                  /\ pm' = r.pm
                  /\ out' = [o EXCEPT !.raised = r.raised, !.acts = r.acts]
    /\ UNCHANGED <<configVars, wstate, info, emitters, mgr, timers, saved_items, hist>>

\* the hotspot names of on_hotspot_clicked; "description-link:u" and
\* "rate:3" stand for the names with these prefixes, "bogus" for any other
HotspotNames ==
    {"download", "thumbnail-download", "pause", "resume", "cancel", "keep",
     "stop_seeding", "start_seeding", "delete", "remove", "visit_webpage",
     "visit_comments", "visit_filelink", "visit_license", "show_local_file",
     "show_contents", "cancel_auto_download", "description-link:u", "play",
     "thumbnail-play", "play_pause", "rate:3", "download-device-item",
     "download-sharing-item", "bogus"}

HotspotName_DeviceFirst(name, item) ==
    IF name = "download"
    THEN IF item.device THEN "download-device-item"
         ELSE IF item.remote THEN "download-sharing-item"
         ELSE name
    ELSE name

\* the name after the test of the item's origin
HotspotName(name, item) ==
    IF name = "download"
    THEN IF item.remote THEN "download-sharing-item"
         ELSE IF item.device THEN "download-device-item"
         ELSE name
    ELSE name

\* the backend message of a hotspot, "" when it sends none
HotspotMessage(n, sub) ==
    CASE n \in {"download", "thumbnail-download"} -> "StartDownload"
      [] n = "pause" -> "PauseDownload"
      [] n = "resume" -> "ResumeDownload"
      [] n = "cancel" -> "CancelDownload"
      [] n = "keep" -> "KeepVideo"
      [] n = "stop_seeding" -> "StopUpload"
      [] n = "start_seeding" -> "StartUpload"
      [] n = "remove" -> "RemoveVideosFromPlaylist"
      [] n = "cancel_auto_download" -> "CancelAutoDownload"
      [] n = "description-link:u" /\ sub -> "SubscriptionLinkClicked"
      [] n = "rate:3" -> "RateItem"
      [] n = "download-device-item" -> "DownloadDeviceItems"
      [] n = "download-sharing-item" -> "DownloadSharingItems"
      [] OTHER -> ""

\* the call on the application of a hotspot, "" when it makes none
HotspotAct(n, sub) ==
    CASE n = "delete" -> "remove_items"
      [] n \in {"visit_webpage", "visit_comments", "visit_filelink", "visit_license"} -> "open_url"
      [] n = "show_local_file" -> "check_then_reveal_file"
      [] n = "show_contents" -> "push_folder_contents_display"
      [] n = "description-link:u" /\ ~sub -> "open_url"
      [] n = "play_pause" -> "play_pause"
      [] OTHER -> ""

\* sub: subscription.is_subscribe_link(url) of a description link
on_hotspot_clicked(c, name, i, sub) ==
    /\ InModel(K(c), i)
    /\ LET n == HotspotName(name, info[i])
           m == HotspotMessage(n, sub)
           a == HotspotAct(n, sub)
           play == n \in {"play", "thumbnail-play"}
           r == PlayItemList(K(c), wstate[c], pm, Some(i))
       IN /\ ctl' = IF play THEN [ctl EXCEPT ![c] = r.k] ELSE ctl
          /\ pm' = IF play THEN r.pm ELSE pm
          /\ saved_items' = IF n = "keep" THEN saved_items \cup {i} ELSE saved_items
          /\ out' = [NoOut("on_hotspot_clicked", c) EXCEPT
                        !.id = i, !.name = name,
                        !.raised = IF play THEN r.raised ELSE "None",
                        !.sent = IF m = "" THEN <<>> ELSE <<Message(m, i)>>,
                        !.acts = IF play THEN r.acts
                                 ELSE IF a = "" THEN <<>> ELSE <<a>>,
                        !.changed = (ctl' # ctl \/ pm' # pm \/ saved_items' # saved_items)]
    /\ UNCHANGED <<configVars, wstate, info, emitters, mgr, timers, hist>>

----------------------------------------------------------------------------
(* ItemListController: activating a row, playing the selection, and the
   signals of the playback manager *)

TriggerStates == {"downloading", "paused", "not-downloaded"}

\* app.playback_manager.play_pause
PlayPause(p) == [p EXCEPT !.is_playing = ~@]

\* _trigger_item(item_view, info)
TriggerItem(k, w, p, i) ==
    LET r == [k |-> k, pm |-> p, acts |-> <<>>, raised |-> "None", sent |-> <<>>]
        played == PlayItemList(k, w, p, Some(i))
    IN IF info[i].downloaded
       THEN [r EXCEPT !.k = played.k, !.pm = played.pm, !.acts = played.acts,
                      !.raised = played.raised]
       ELSE IF info[i].state = "downloading"
       THEN [r EXCEPT !.sent = <<Message("PauseDownload", i)>>]
       ELSE IF info[i].state = "paused"
       THEN [r EXCEPT !.sent = <<Message("ResumeDownload", i)>>]
       ELSE IF info[i].download_info = None
       THEN [r EXCEPT !.sent = <<Message("StartDownload", i)>>]
       ELSE r

on_row_double_clicked(c, i) ==
    /\ InModel(K(c), i)
    /\ LET r == TriggerItem(K(c), wstate[c], pm, i)
       IN /\ ctl' = [ctl EXCEPT ![c] = r.k]
          /\ pm' = r.pm
          /\ out' = [NoOut("on_row_double_clicked", c) EXCEPT
                        !.id = i, !.raised = r.raised, !.sent = r.sent, !.acts = r.acts,
                        !.pre = pm.is_playing,
                        !.changed = (r.k # K(c) \/ r.pm # pm)]
    /\ UNCHANGED <<configVars, wstate, info, emitters, mgr, timers, saved_items, hist>>

IsPlaying_Never(p) == FALSE

IsPlaying(p) == p.is_playing

on_row_activated(c, i) ==
    /\ InModel(K(c), i)
    /\ LET r == TriggerItem(K(c), wstate[c], pm, i)
           o == [NoOut("on_row_activated", c) EXCEPT !.id = i, !.pre = pm.is_playing]
       IN IF IsPlaying(pm)
          THEN /\ pm' = PlayPause(pm)
               /\ out' = [o EXCEPT !.acts = <<"play_pause">>]
               /\ UNCHANGED ctl
          ELSE /\ ctl' = [ctl EXCEPT ![c] = r.k]
               /\ pm' = r.pm
               /\ out' = [o EXCEPT !.raised = r.raised, !.sent = r.sent, !.acts = r.acts,
                                   !.changed = (r.k # K(c) \/ r.pm # pm)]
    /\ UNCHANGED <<configVars, wstate, info, emitters, mgr, timers, saved_items, hist>>

\* the orders in which a view may report the selected rows
Orders(S) ==
    {s \in [1..Cardinality(S) -> S] : \A i, j \in DOMAIN s : i # j => s[i] # s[j]}

\* item_list.model.index_of_id
IndexOfId(m, id) == CHOOSE n \in DOMAIN m : m[n] = id

\* list.sort(key=index_of_id), one element at a time
InsertByIndex(m, sorted, x) ==
    LET n == Cardinality({j \in DOMAIN sorted : IndexOfId(m, sorted[j]) <= IndexOfId(m, x)})
    IN SubSeq(sorted, 1, n) \o <<x>> \o SubSeq(sorted, n + 1, Len(sorted))

RECURSIVE SortByIndex(_, _)
SortByIndex(m, ids) ==
    IF ids = <<>> THEN <<>>
    ELSE InsertByIndex(m, SortByIndex(m, SubSeq(ids, 1, Len(ids) - 1)), ids[Len(ids)])

StartId_Unsorted(k, selection) ==
    IF Len(selection) = 0 THEN None ELSE Some(selection[1])

\* the start_id of play_selection
StartId(k, selection) ==
    IF Len(selection) = 0 THEN None
    ELSE IF Len(selection) = 1 THEN Some(selection[1])
    ELSE Some(SortByIndex(k.model, selection)[1])

play_selection(c, selection) ==
    /\ selection \in Orders(GetSelectedIds(K(c)))
    /\ LET start == StartId(K(c), selection)
           r == PlayItemList(K(c), wstate[c], pm, start)
       IN /\ ctl' = [ctl EXCEPT ![c] = r.k]
          /\ pm' = r.pm
          /\ out' = [NoOut("play_selection", c) EXCEPT
                        !.raised = r.raised, !.acts = r.acts, !.S = Some(start),
                        !.id = IF selection = <<>> THEN 0 ELSE selection[1],
                        !.pre = CanPlayItems(K(c)),
                        !.changed = (r.k # K(c) \/ r.pm # pm)]
    /\ UNCHANGED <<configVars, wstate, info, emitters, mgr, timers, saved_items, hist>>

play_items(c) ==
    /\ LET r == PlayItemList(K(c), wstate[c], pm, None)
       IN /\ ctl' = [ctl EXCEPT ![c] = r.k]
          /\ pm' = r.pm
          /\ out' = [NoOut("play_items", c) EXCEPT
                        !.raised = r.raised, !.acts = r.acts, !.S = Some(None),
                        !.pre = CanPlayItems(K(c)),
                        !.changed = (r.k # K(c) \/ r.pm # pm)]
    /\ UNCHANGED <<configVars, wstate, info, emitters, mgr, timers, saved_items, hist>>

\* the controllers a signal of the playback manager reaches
Receivers(sig) == {c \in Controllers : Connected(emitters["playback"], sig, c)}

\* _playback_will_stop
PlaybackWillStop(k, w) == UpdateResumeButton([k EXCEPT !._playing_items = FALSE], w)

\* the playback manager emits "will-stop"
playback_will_stop ==
    /\ Receivers("will-stop") # {}
    /\ ctl' = [c \in Controllers |->
                  IF c \in Receivers("will-stop")
                  THEN PlaybackWillStop(K(c), wstate[c]) ELSE K(c)]
    /\ out' = NoOut("playback_will_stop", "A")
    /\ UNCHANGED <<configVars, wstate, info, emitters, pm, mgr, timers, saved_items, hist>>

RecordsLastPlayed_Always(k) == TRUE

RecordsLastPlayed(k) == k._playing_items

\* _playback_will_play, item: playback_manager.get_playing_item()
PlaybackWillPlay(k, w, item) ==
    IF RecordsLastPlayed(k)
    THEN [k |-> UpdateResumeButton(k, [w EXCEPT !.last_played = Some(item)]),
          w |-> [w EXCEPT !.last_played = Some(item)]]
    ELSE [k |-> k, w |-> w]

\* the playback manager emits "will-play"
playback_will_play(item) ==
    /\ Receivers("will-play") # {}
    /\ pm.playlist
    /\ ctl' = [c \in Controllers |->
                  IF c \in Receivers("will-play")
                  THEN PlaybackWillPlay(K(c), wstate[c], item).k ELSE K(c)]
    /\ wstate' = [c \in Controllers |->
                     IF c \in Receivers("will-play")
                     THEN PlaybackWillPlay(K(c), wstate[c], item).w ELSE wstate[c]]
    /\ out' = [NoOut("playback_will_play", "A") EXCEPT !.id = item]
    /\ UNCHANGED <<configVars, info, emitters, pm, mgr, timers, saved_items, hist>>

\* the playback manager has stopped and emits "did-stop":
\* _handle_playback_did_stop of every receiver, one after the other
playback_did_stop ==
    /\ pm.playlist
    /\ LET D == {c \in Receivers("did-stop") : IsDisplayed(c)}
       IN pm' = IF D = {} THEN Stopped(pm)
                ELSE LoadShuffleRepeat(Stopped(pm), wstate[CHOOSE c \in D : TRUE])
    /\ out' = NoOut("playback_did_stop", "A")
    /\ UNCHANGED <<configVars, ctl, wstate, info, emitters, mgr, timers, saved_items, hist>>

\* the playback manager changes shuffle and emits "update-shuffle":
\* _handle_shuffle_update of every receiver
update_shuffle(v) ==
    /\ pm.shuffle # v
    /\ pm' = [pm EXCEPT !.shuffle = v]
    /\ wstate' = [c \in Controllers |->
                     IF c \in Receivers("update-shuffle") /\ IsDisplayed(c)
                     THEN [wstate[c] EXCEPT !.shuffle = v] ELSE wstate[c]]
    /\ out' = NoOut("update_shuffle", "A")
    /\ UNCHANGED <<configVars, ctl, info, emitters, mgr, timers, saved_items, hist>>

\* the same for repeat: _handle_repeat_update
update_repeat(v) ==
    /\ pm.repeat # v
    /\ pm' = [pm EXCEPT !.repeat = v]
    /\ wstate' = [c \in Controllers |->
                     IF c \in Receivers("update-repeat") /\ IsDisplayed(c)
                     THEN [wstate[c] EXCEPT !.repeat = v] ELSE wstate[c]]
    /\ out' = NoOut("update_repeat", "A")
    /\ UNCHANGED <<configVars, ctl, info, emitters, mgr, timers, saved_items, hist>>

----------------------------------------------------------------------------
(* ItemListController: the sort state.  A sort key and a column name are
   strings, modelled as sequences of characters. *)

SortChars == {"-", "a", "b"}

SortKeys == UNION {[1..n -> SortChars] : n \in 0..MaxKeyLen}

\* itemlist.SORT_KEY_MAP: the columns that have a sorter
SORT_KEY_MAP == {<<"a">>, <<"b">>, <<"a", "b">>, <<"-", "a">>}

\* WidgetStateStore.DEFAULT_SORT_COLUMN: the default sort key of each tab type
DEFAULT_SORT_COLUMN == {<<"a">>, <<"b">>, <<"-", "b">>}

\* a sorter: its KEY and what is_ascending() answers
NewSorter(column, ascending) == [KEY |-> column, ascending |-> ascending]

ParseSortKey_NoStrip(key) == [column |-> key, ascending |-> TRUE]

\* parse_sort_key(key)
ParseSortKey(key) ==
    IF key # <<>> /\ Head(key) = "-"
    THEN [column |-> Tail(key), ascending |-> FALSE]
    ELSE [column |-> key, ascending |-> TRUE]

\* make_sort_key(sorter)
MakeSortKey(sorter) ==
    IF sorter.ascending THEN sorter.KEY ELSE <<"-">> \o sorter.KEY

\* make_sorter(column, ascending) of a tab type with this default sort key;
\* a default whose column has no sorter lets the KeyError out
MakeSorter(column, ascending, default) ==
    IF column \in SORT_KEY_MAP
    THEN [sorter |-> Some(NewSorter(column, ascending)), raised |-> "None"]
    ELSE LET d == ParseSortKey(default)
         IN IF d.column \in SORT_KEY_MAP
            THEN [sorter |-> Some(NewSorter(d.column, d.ascending)), raised |-> "None"]
            ELSE [sorter |-> None, raised |-> "KeyError"]

make_sort_key(c, sorter) ==
    /\ out' = [NoOut("make_sort_key", c) EXCEPT
                  !.S = Some([sorter |-> sorter, key |-> MakeSortKey(sorter)])]
    /\ UNCHANGED <<configVars, ctl, wstate, info, emitters, pm, mgr, timers,
                   saved_items, hist>>

\* the saved sort key is read back
parse_sort_key(c) ==
    /\ out.op = "make_sort_key"
    /\ out.c = c
    /\ out' = [NoOut("parse_sort_key", c) EXCEPT
                  !.S = Some([sorter |-> out.S[1].sorter, key |-> out.S[1].key,
                              parsed |-> ParseSortKey(out.S[1].key)])]
    /\ UNCHANGED <<configVars, ctl, wstate, info, emitters, pm, mgr, timers,
                   saved_items, hist>>

make_sorter(c, column, ascending, default) ==
    /\ LET r == MakeSorter(column, ascending, default)
       IN out' = [NoOut("make_sorter", c) EXCEPT
                     !.raised = r.raised,
                     !.S = Some([column |-> column, ascending |-> ascending,
                                 default |-> default, sorter |-> r.sorter])]
    /\ UNCHANGED <<configVars, ctl, wstate, info, emitters, pm, mgr, timers,
                   saved_items, hist>>

----------------------------------------------------------------------------
(* Specifications.  Each one drives the same statements with the calls and
   the inputs the properties checked under it are about. *)

\* The frontend as the application starts it: both controllers constructed
\* on empty item lists, nothing tracked, displayed or playing.
FrontendInit ==
    /\ wstate = [c \in Controllers |-> NewWidgetState("list")]
    /\ ctl = [c \in Controllers |-> Constructed(wstate[c], FALSE, <<>>)]
    /\ info = [i \in Ids |-> ItemInfo("not-downloaded", FALSE, FALSE, TRUE, FALSE)]
    /\ emitters = [e \in EmitterNames |-> NewEmitter]
    /\ pm = [playlist |-> FALSE, is_playing |-> FALSE, shuffle |-> FALSE, repeat |-> FALSE]
    /\ mgr = NoController
    /\ timers = [c \in Controllers |-> [i \in Ids |-> 0]]
    /\ saved_items = {}
    /\ hist = [c \in Controllers |-> NoHist]
    /\ out = NoOut("init", "A")

Init == ConfigInit /\ FrontendInit

LockStep(t) ==
    \/ acquire(t)
    \/ release(t)
    \/ check_validity(t)
    \/ Return(t)

LoadStep(t) ==
    \/ load_body(t)
    \/ load_serial(t)
    \/ load_serial_set(t)
    \/ get_lookup(t)

SetStep(t) ==
    \/ set_test(t)
    \/ set_tcmp(t)
    \/ set_twrite(t)
    \/ set_dcmp(t)
    \/ set_dwrite(t)
    \/ notify_iter(t)
    \/ notify_next(t)
    \/ init_temporary_body(t)

CallbackStep(t) ==
    \/ add_change_callback_body(t)
    \/ remove_change_callback_body(t)

\* The store: one thread reading, writing, loading and saving preferences;
\* no change callback is registered.
Next ==
    \E t \in {EventLoopThread} :
        \/ \E d \in Descriptors \cup {APP_PLATFORM}, u \in BOOLEAN : get(t, d, u)
        \/ \E v \in Values : set(t, PREF_A, v)
        \/ set(t, PREF_B, "a")
        \/ \E theme \in Themes : load(t, theme)
        \/ save(t)
        \/ init_temporary(t)
        \/ LockStep(t)
        \/ LoadStep(t)
        \/ SetStep(t)
        \/ get_temporary(t)
        \/ save_body(t)

Spec == Init /\ [][Next]_vars

\* Change notification: one thread (the event loop's) registering callbacks,
\* writing preferences and running the idle tasks.
NotifyNext ==
    \E t \in {EventLoopThread} :
        \/ \E v \in {"a", FAKE} : set(t, PREF_A, v)
        \/ init_temporary(t)
        \/ \E cb \in Callbacks : add_change_callback(t, cb)
        \/ \E cb \in Callbacks : remove_change_callback(t, cb)
        \/ LockStep(t)
        \/ LoadStep(t)
        \/ SetStep(t)
        \/ CallbackStep(t)
        \/ RunIdle(t)

NotifyInit == Init /\ inUnitTests

NotifySpec == NotifyInit /\ [][NotifyNext]_vars

\* Two threads, their statements interleaved: the event loop's thread reads,
\* writes, loads and saves while the other writes, enters temporary mode and
\* registers and removes callbacks.
ThreadNext ==
    \/ get(EventLoopThread, PREF_A, TRUE)
    \/ \E t \in Threads : set(t, PREF_A, "a")
    \/ load(EventLoopThread, "None")
    \/ save(EventLoopThread)
    \/ init_temporary(OtherThread)
    \/ \E cb \in Callbacks : add_change_callback(OtherThread, cb)
    \/ remove_change_callback(OtherThread, "cb1")
    \/ \E t \in Threads :
        \/ LockStep(t)
        \/ LoadStep(t)
        \/ SetStep(t)
        \/ CallbackStep(t)
        \/ get_temporary(t)
        \/ save_body(t)

ThreadInit == Init /\ inUnitTests

ThreadSpec == ThreadInit /\ [][ThreadNext]_vars

\* The store at rest under the frontend's specifications
ConfigQuiet == ConfigInit /\ inUnitTests

\* One controller and its item list: the tracker's signals in any order,
\* the user sorting, selecting, switching views, scrolling and resuming.
\* The widget state and the items the tracker already holds are what an
\* earlier run left; the titlebar has a resume button when there is a last
\* played item to resume.
ListInit ==
    /\ ConfigQuiet
    /\ \E sel \in {None, Some({1})}, last \in {None, Some(1)}, m \in {<<>>, <<1>>} :
          /\ wstate = [c \in Controllers |->
                          IF c = "A"
                          THEN [NewWidgetState("list") EXCEPT !.selection = sel,
                                                              !.last_played = last]
                          ELSE NewWidgetState("list")]
          /\ ctl = [c \in Controllers |->
                       IF c = "A" THEN Constructed(wstate[c], last # None, m)
                       ELSE Constructed(wstate[c], FALSE, <<>>)]
    /\ info = [i \in Ids |-> ItemInfo("not-downloaded", FALSE, FALSE, TRUE, FALSE)]
    /\ emitters = [e \in EmitterNames |-> NewEmitter]
    /\ pm = [playlist |-> FALSE, is_playing |-> FALSE, shuffle |-> FALSE, repeat |-> FALSE]
    /\ mgr = NoController
    /\ timers = [c \in Controllers |-> [i \in Ids |-> 0]]
    /\ saved_items = {}
    /\ hist = [c \in Controllers |-> NoHist]
    /\ out = NoOut("init", "A")

ListNext ==
    \E c \in {"A"} :
        \/ start_tracking(c)
        \/ handle_items_will_change(c)
        \/ \E m \in Models : tracker_update(c, m)
        \/ handle_item_list(c)
        \/ handle_items_changed(c)
        \/ \E m \in Models : on_sort_changed(c, m)
        \/ \E S \in SUBSET Ids : on_selection_changed(c, S)
        \/ \E view \in Views, ok \in BOOLEAN : set_view(c, view, ok)
        \/ \E i \in Ids : scroll_to_item(c, i)
        \/ on_resume_playing(c)

ListSpec == ListInit /\ [][ListNext]_vars

\* The throbbers of one controller: rows drawn, timers firing, downloads
\* starting and ending, items coming and going.
AnimInit ==
    /\ ConfigQuiet
    /\ FrontendInit

AnimNext ==
    \E c \in {"A"} :
        \/ start_tracking(c)
        \/ handle_items_will_change(c)
        \/ \E m \in Models : tracker_update(c, m)
        \/ handle_items_changed(c)
        \/ \E i \in Ids : on_throbber_drawn(c, i)
        \/ \E i \in Ids : do_iteration(c, i)
        \/ \E i \in Ids, s \in ItemStates : item_state_changed(i, s)

AnimSpec == AnimInit /\ [][AnimNext]_vars

\* the timers of the event loop fire
AnimFairSpec == AnimSpec /\ \A i \in Ids : WF_vars(do_iteration("A", i))

\* Two controllers tracked and untracked, displayed and undisplayed through
\* the manager.
TrackInit ==
    /\ ConfigQuiet
    /\ FrontendInit

TrackNext ==
    \/ \E c \in Controllers :
        \/ start_tracking(c)
        \/ stop_tracking(c)
        \/ controller_displayed(c)
        \/ controller_no_longer_displayed(c)
    \/ undisplay_controller

TrackSpec == TrackInit /\ [][TrackNext]_vars

\* Clicks on the hotspots of the rows of a list of two items, the first of
\* any origin and kind.
HotspotInit ==
    /\ ConfigQuiet
    /\ wstate = [c \in Controllers |-> NewWidgetState("list")]
    /\ ctl = [c \in Controllers |->
                 Constructed(wstate[c], FALSE, IF c = "A" THEN <<1, 2>> ELSE <<>>)]
    /\ \E remote \in BOOLEAN, device \in BOOLEAN, playable \in BOOLEAN, container \in BOOLEAN :
          info = [i \in Ids |->
                     IF i = 1 THEN ItemInfo("not-downloaded", remote, device, playable, container)
                     ELSE ItemInfo("downloading", FALSE, FALSE, TRUE, FALSE)]
    /\ emitters = [e \in EmitterNames |-> NewEmitter]
    /\ pm = [playlist |-> FALSE, is_playing |-> FALSE, shuffle |-> FALSE, repeat |-> FALSE]
    /\ mgr = NoController
    /\ timers = [c \in Controllers |-> [i \in Ids |-> 0]]
    /\ saved_items = {}
    /\ hist = [c \in Controllers |-> NoHist]
    /\ out = NoOut("init", "A")

HotspotNext ==
    \E c \in {"A"}, name \in HotspotNames, i \in Ids, sub \in BOOLEAN :
        on_hotspot_clicked(c, name, i, sub)

HotspotSpec == HotspotInit /\ [][HotspotNext]_vars

\* One controller whose rows are activated and whose selection is played,
\* and the playback manager's signals; the first item is of any kind, and
\* the list is in either order.
PlayInit ==
    /\ ConfigQuiet
    /\ wstate = [c \in Controllers |-> NewWidgetState("list")]
    /\ \E m \in {<<1, 2>>, <<2, 1>>} :
          ctl = [c \in Controllers |->
                    Constructed(wstate[c], c = "A", IF c = "A" THEN m ELSE <<>>)]
    /\ \E downloaded \in BOOLEAN, state \in TriggerStates, download_info \in {None, Some("info")},
          playable \in BOOLEAN, container \in BOOLEAN :
          info = [i \in Ids |->
                     IF i = 1
                     THEN [ItemInfo(state, FALSE, FALSE, playable, container) EXCEPT
                              !.downloaded = downloaded, !.download_info = download_info]
                     ELSE [ItemInfo("not-downloaded", FALSE, FALSE, playable, FALSE) EXCEPT
                              !.downloaded = TRUE]]
    /\ emitters = [e \in EmitterNames |-> NewEmitter]
    /\ pm = [playlist |-> FALSE, is_playing |-> FALSE, shuffle |-> FALSE, repeat |-> FALSE]
    /\ mgr = NoController
    /\ timers = [c \in Controllers |-> [i \in Ids |-> 0]]
    /\ saved_items = {}
    /\ hist = [c \in Controllers |-> NoHist]
    /\ out = NoOut("init", "A")

PlayNext ==
    \/ \E c \in {"A"} :
        \/ start_tracking(c)
        \/ \E i \in Ids : on_row_double_clicked(c, i)
        \/ \E i \in Ids : on_row_activated(c, i)
        \/ \E S \in SUBSET Ids : on_selection_changed(c, S)
        \/ \E selection \in UNION {Orders(S) : S \in SUBSET Ids} : play_selection(c, selection)
        \/ play_items(c)
        \/ on_resume_playing(c)
    \/ playback_will_stop
    \/ \E i \in Ids : playback_will_play(i)
    \/ playback_did_stop
    \/ \E v \in BOOLEAN : update_shuffle(v)

PlaySpec == PlayInit /\ [][PlayNext]_vars

\* Two tabs with their own saved shuffle and repeat, displayed and undisplayed
\* through the manager while items are played and the playback manager
\* reports changes of shuffle and repeat and the end of playback.
ShuffleInit ==
    /\ ConfigQuiet
    /\ \E sa \in BOOLEAN, ra \in BOOLEAN, sb \in BOOLEAN :
          wstate = [c \in Controllers |->
                       IF c = "A"
                       THEN [NewWidgetState("list") EXCEPT !.shuffle = sa, !.repeat = ra]
                       ELSE [NewWidgetState("list") EXCEPT !.shuffle = sb]]
    /\ ctl = [c \in Controllers |->
                 Constructed(wstate[c], FALSE, IF c = "A" THEN <<1>> ELSE <<2>>)]
    /\ info = [i \in Ids |-> ItemInfo("not-downloaded", FALSE, FALSE, TRUE, FALSE)]
    /\ emitters = [e \in EmitterNames |-> NewEmitter]
    /\ pm = [playlist |-> FALSE, is_playing |-> FALSE, shuffle |-> FALSE, repeat |-> FALSE]
    /\ mgr = NoController
    /\ timers = [c \in Controllers |-> [i \in Ids |-> 0]]
    /\ saved_items = {}
    /\ hist = [c \in Controllers |-> NoHist]
    /\ out = NoOut("init", "A")

ShuffleNext ==
    \/ \E c \in Controllers :
        \/ controller_displayed(c)
        \/ controller_no_longer_displayed(c)
        \/ play_items(c)
    \/ undisplay_controller
    \/ \E v \in BOOLEAN : update_shuffle(v)
    \/ \E v \in BOOLEAN : update_repeat(v)
    \/ playback_did_stop

ShuffleSpec == ShuffleInit /\ [][ShuffleNext]_vars

\* A tab with a selection saved by an earlier run, displayed and undisplayed
\* before and after its initial item list arrives.
DisplayInit ==
    /\ ConfigQuiet
    /\ \E sel \in {Some({1}), Some({1, 2})} :
          wstate = [c \in Controllers |->
                       IF c = "A" THEN [NewWidgetState("list") EXCEPT !.selection = sel]
                       ELSE NewWidgetState("list")]
    /\ ctl = [c \in Controllers |-> Constructed(wstate[c], FALSE, <<>>)]
    /\ info = [i \in Ids |-> ItemInfo("not-downloaded", FALSE, FALSE, TRUE, FALSE)]
    /\ emitters = [e \in EmitterNames |-> NewEmitter]
    /\ pm = [playlist |-> FALSE, is_playing |-> FALSE, shuffle |-> FALSE, repeat |-> FALSE]
    /\ mgr = NoController
    /\ timers = [c \in Controllers |-> [i \in Ids |-> 0]]
    /\ saved_items = {}
    /\ hist = [c \in Controllers |-> NoHist]
    /\ out = NoOut("init", "A")

DisplayNext ==
    \E c \in {"A"} :
        \/ controller_displayed(c)
        \/ controller_no_longer_displayed(c)
        \/ start_tracking(c)
        \/ handle_items_will_change(c)
        \/ \E m \in Models : tracker_update(c, m)
        \/ handle_item_list(c)
        \/ \E S \in SUBSET Ids : on_selection_changed(c, S)
        \/ \E i \in Ids : scroll_to_item(c, i)

DisplaySpec == DisplayInit /\ [][DisplayNext]_vars

\* The sort state of one tab: sorters of every key and direction encoded
\* and read back, and sorters made for every column of every tab type.
SortInit ==
    /\ ConfigQuiet
    /\ FrontendInit

SortNext ==
    \E c \in {"A"} :
        \/ \E column \in SortKeys, ascending \in BOOLEAN :
              make_sort_key(c, NewSorter(column, ascending))
        \/ parse_sort_key(c)
        \/ \E column \in SortKeys, ascending \in BOOLEAN, default \in DEFAULT_SORT_COLUMN :
              make_sorter(c, column, ascending, default)

SortSpec == SortInit /\ [][SortNext]_vars

----------------------------------------------------------------------------
(* Properties *)

Frames(t) == {stack[t][i] : i \in 1..Len(stack[t])}

\* the call a thread made itself (not one nested in load) has finished and is
\* about to hand its result back
Returning(t, fn) == Len(stack[t]) = 1 /\ At(t, fn, "return") /\ ~Top(t).raised

\* the tasks a set has appended to the idle queue
Appended(f) == {i \in 1..Len(queue) : i > f.q0}

(* C1: in temporary mode, a get(d) that follows set(d, v) with no set of
   d.key, load or init_temporary in between returns v. *)
C1_GetAfterSet ==
    \A t \in Threads :
        (Returning(t, "get") /\ ~IsNone(temp) /\ HasKey(written, Top(t).d.key))
            => Top(t).ret = written[Top(t).d.key]

\* the same for every value but the one set uses as its "no entry" marker
C1_GetAfterSetUnlessMarker ==
    \A t \in Threads :
        (Returning(t, "get") /\ ~IsNone(temp) /\ HasKey(written, Top(t).d.key)
            /\ written[Top(t).d.key] # FAKE)
            => Top(t).ret = written[Top(t).d.key]

\* what the data layer gives for d: the stored value, or the failsafe value
\* when an allowed set is declared and the stored value is not in it
StoredOrFailsafe(d) ==
    IF d.possible_values # NoneSet /\ data[d.key] \notin d.possible_values
    THEN d.failsafe_value ELSE data[d.key]

(* C2: when _data holds a value for d.key, get(d) returns d.failsafe_value
   if d declares an allowed set and the value is outside it, and the stored
   value unchanged otherwise. *)
C2_StoredValue ==
    \A t \in Threads :
        (Returning(t, "get") /\ HasKey(data, Top(t).d.key))
            => Top(t).ret = StoredOrFailsafe(Top(t).d)

(* C2, amended: the same, provided the temporary settings hold no entry for
   d.key. *)
C2_StoredValueNoOverride ==
    \A t \in Threads :
        (Returning(t, "get") /\ HasKey(data, Top(t).d.key)
            /\ ~(~IsNone(temp) /\ HasKey(temp, Top(t).d.key)))
            => Top(t).ret = StoredOrFailsafe(Top(t).d)

C2_Witness ==
    \E t \in Threads :
        /\ Returning(t, "get")
        /\ ~IsNone(temp)
        /\ HasKey(data, Top(t).d.key)
        /\ data[Top(t).d.key] = "b"
        /\ Top(t).ret = "fs"

\* the first layer, in get's order, that has an entry for d
FirstLayer(d, use_theme_data) ==
    IF ~IsNone(temp) /\ HasKey(temp, d.key) THEN "temporary"
    ELSE IF HasKey(data, d.key) THEN "data"
    ELSE IF d.platformSpecific THEN "platform"
    ELSE IF ConfigfileContains(configfile, d.key, use_theme_data) THEN "configfile"
    ELSE "default"

(* C3: get(d) answers from the first layer that has an entry for d.key, in
   the order temporary settings, _data, platform backend (platform-specific
   descriptors), app/theme config file, d.default. *)
C3_LayerPriority ==
    \A t \in Threads :
        (stack[t] # <<>> /\ At(t, "get", "return") /\ ~Top(t).raised) =>
            LET f == Top(t)
            IN  /\ f.layer = FirstLayer(f.d, f.use_theme_data)
                /\ f.layer = "temporary" => f.ret = temp[f.d.key]
                /\ f.layer = "data" => f.ret = StoredOrFailsafe(f.d)
                /\ f.layer = "platform" => f.ret = PlatformGet(f.d)
                /\ f.layer = "configfile"
                      => f.ret = ConfigfileGet(configfile, f.d.key, f.use_theme_data)
                /\ f.layer = "default" => f.ret = f.d.default

C3_Witness ==
    \E t \in Threads :
        /\ Returning(t, "get")
        /\ Top(t).layer = "configfile"
        /\ ~IsNone(temp) /\ temp # EmptyDict
        /\ data # EmptyDict

(* C4: set runs no callback itself: a callback is only ever called by the
   event loop taking an idle task, and a set that changed the value has
   appended exactly one task (callback, key, value) per registered callback
   by the time it returns. *)
C4_DeferredNotification ==
    \A t \in Threads :
        /\ \A f \in Frames(t) : f.fn = "callback" => Len(stack[t]) = 1
        /\ (Returning(t, "set") /\ Top(t).changed) =>
              LET f == Top(t)
              IN  /\ Len(queue) = f.q0 + Cardinality(callbacks)
                  /\ {queue[i] : i \in Appended(f)}
                        = {<<cb, f.d.key, f.v>> : cb \in callbacks}

C4_Witness ==
    \E t \in Threads :
        /\ Returning(t, "set")
        /\ Top(t).changed
        /\ Top(t).q0 > 0
        /\ callbacks # {}

(* C5: set(d, v) writes the active layer and enqueues notifications exactly
   when the layer has no entry for d.key or holds another value than v;
   otherwise it enqueues nothing and leaves the layer as it was. *)
C5_NotifyOnlyOnChange ==
    \A t \in Threads :
        Returning(t, "set") =>
            LET f == Top(t)
                layer == IF f.layer = "temporary" THEN temp ELSE data
            IN  /\ f.changed <=> f.held # f.v
                /\ f.changed => (HasKey(layer, f.d.key) /\ layer[f.d.key] = f.v)
                /\ ~f.changed => (Len(queue) = f.q0
                                  /\ DictGet(layer, f.d.key, Absent) = f.held)

\* the same with _data as the active layer (temporary mode off)
C5_NotifyOnlyOnChangeData ==
    \A t \in Threads :
        (Returning(t, "set") /\ Top(t).layer = "data") =>
            LET f == Top(t)
            IN  /\ f.changed <=> f.held # f.v
                /\ f.changed => (HasKey(data, f.d.key) /\ data[f.d.key] = f.v)
                /\ ~f.changed => (Len(queue) = f.q0
                                  /\ DictGet(data, f.d.key, Absent) = f.held)

(* C6: a callback is registered exactly when add_change_callback was called
   for it, once or more, since its last removal; add and remove change the
   registration of no other callback and raise nothing; a changing set
   enqueues exactly one task for each registered callback, none for others. *)
C6_CallbackIdempotent ==
    /\ callbacks = {cb \in Callbacks : regs[cb] >= 1}
    /\ \A t \in Threads :
        /\ At(t, "add_change_callback", "return") =>
              (~Top(t).raised /\ callbacks = Top(t).before \cup {Top(t).cb})
        /\ At(t, "remove_change_callback", "return") =>
              (~Top(t).raised /\ callbacks = Top(t).before \ {Top(t).cb})
        /\ (Returning(t, "set") /\ Top(t).changed) =>
              \A cb \in Callbacks :
                  Cardinality({i \in Appended(Top(t)) : queue[i][1] = cb})
                      = (IF regs[cb] >= 1 THEN 1 ELSE 0)

C6_Witness ==
    \E t \in Threads :
        /\ Returning(t, "set")
        /\ Top(t).changed
        /\ \E cb \in Callbacks : regs[cb] >= 2
        /\ \E cb \in Callbacks : regs[cb] = 0

(* C7: in temporary mode _data stays what it was when temporary mode began
   (or what a load has made it since): no set writes to it, and save hands
   the platform backend exactly that mapping. *)
C7_TemporaryNeverPersists ==
    /\ ~IsNone(temp) => data = base
    /\ \A t \in Threads :
          (Returning(t, "save") /\ ~IsNone(temp) /\ ~inUnitTests) => store = base

C7_Witness ==
    \E t \in Threads :
        /\ Returning(t, "save")
        /\ ~inUnitTests
        /\ HasKey(temp, PREF_A.key)
        /\ HasKey(temp, PREF_B.key)
        /\ store = base

\* a thread is inside the locked body of get, set, load or save
InBody(t) ==
    \E f \in Frames(t) :
        f.fn \in {"get", "set", "load", "save"} /\ f.pc \notin {"acquire", "return"}

(* C8: at most one thread at a time is inside the body of get, set, load or
   save, and that thread owns the lock. *)
C8_MutualExclusion ==
    /\ Cardinality({t \in Threads : InBody(t)}) <= 1
    /\ \A t \in Threads : InBody(t) => (lockOwner = t /\ lockCount >= 1)

C8_Witness ==
    /\ At(EventLoopThread, "get", "lookup")
    /\ At(OtherThread, "set", "acquire")
    /\ lockOwner = EventLoopThread

(* C9: while a set in one thread reads the callback set (iterating it to
   enqueue notifications) or the temporary settings (between its test and
   its write), no other thread changes them. *)
C9_NoChangeWhileSetReads ==
    [][\A t \in Threads :
          /\ At(t, "set", "next") => callbacks' = callbacks
          /\ ((At(t, "set", "tcmp") \/ At(t, "set", "twrite")) /\ stack'[t] = stack[t])
                => temp' = temp]_vars

(* C10: get, set and save run their body on loaded data; once a load has
   assigned _data it is never None again; an implicit load happens only when
   no load has completed before, and load is never entered from within load. *)
C10_LoadedOnce ==
    /\ loaded => ~IsNone(data)
    /\ \A t \in Threads :
        /\ \A f \in Frames(t) : (f.fn = "load" /\ f.implicit) => f.first
        /\ (stack[t] # <<>> /\ Top(t).fn \in {"get", "set", "save"}
              /\ Top(t).pc \notin {"acquire", "check"} /\ ~Top(t).raised) => loaded
        /\ Cardinality({i \in 1..Len(stack[t]) : stack[t][i].fn = "load"}) <= 1

C10_Witness ==
    \E t \in Threads :
        /\ Len(stack[t]) = 3
        /\ stack[t][1].fn = "set"
        /\ stack[t][2].fn = "load" /\ stack[t][2].implicit
        /\ At(t, "get", "return")

----------------------------------------------------------------------------
(* Properties of the item list controllers *)

\* the handler that ran last called send_model_changed, and left this
Sent == out.sm[1]

(* C11: when send_model_changed follows an item_list_will_change, whatever
   was added to, removed from or reordered in the item list in between, the
   current view's selection is the ids selected at item_list_will_change
   that are still in the list, and _selection_to_restore is None. *)
C11_SelectionRestored ==
    (out.sm # None /\ out.S # None) =>
        /\ Sent.sel = out.S[1] \cap Sent.ids
        /\ Sent.str = None

C11_Witness ==
    /\ out.op = "handle_items_changed"
    /\ out.S = Some(Ids)
    /\ Sent.ids # {} /\ Sent.ids # Ids
    /\ Sent.sel = Sent.ids

\* the last handler raised nothing, sent nothing and started no playback
Benign ==
    /\ out.raised = "None"
    /\ out.sent = <<>>
    /\ \A n \in DOMAIN out.acts : out.acts[n] # "start"

(* C12: restore_selected_ids, the animation's iteration, on_resume_playing,
   update_resume_button and scroll_to_item, given the id of an item that is
   no longer in the item list, raise nothing, send no message to the backend
   and start no playback. *)
C12_LookupFailuresBenign ==
    /\ (out.op = "scroll_to_item" /\ ~InModel(K(out.c), out.id)) => Benign
    /\ (out.op = "on_resume_playing" /\ out.pre) => Benign
    /\ (out.op = "do_iteration" /\ ~InModel(K(out.c), out.id)) => Benign
    /\ out.op \in {"handle_items_changed", "on_sort_changed"} => Benign

(* C13: send_model_changed reports a soft failure exactly when no
   item_list_will_change ran since the send_model_changed before it, an
   empty selection at item_list_will_change included; as long as the tracker
   sends items-will-change before each initial-list and items-changed, no
   soft failure is reported. *)
C13_SoftFailureWithoutWillChange ==
    out.sm # None =>
        /\ out.soft <=> ~out.pre
        /\ out.soft => ~hist[out.c].ordered

C13_Witness ==
    /\ out.op = "handle_items_changed"
    /\ out.pre
    /\ out.S = Some({})
    /\ ~out.soft
    /\ hist[out.c].ordered

\* the message the backend gets for a click on the hotspot name of an item
Proxied(name, item) ==
    CASE name = "download" -> IF item.remote THEN "DownloadSharingItems"
                              ELSE IF item.device THEN "DownloadDeviceItems"
                              ELSE "StartDownload"
      [] name = "thumbnail-download" -> "StartDownload"
      [] name = "pause" -> "PauseDownload"
      [] name = "resume" -> "ResumeDownload"
      [] name = "cancel" -> "CancelDownload"
      [] name = "keep" -> "KeepVideo"

(* C14: a click on a hotspot sends at most one message to the backend or
   makes one call on the application, fixed by the hotspot's name and the
   item: download and thumbnail-download send StartDownload, pause
   PauseDownload, resume ResumeDownload, cancel CancelDownload, keep
   KeepVideo with the id added to the saved items; download sends
   DownloadSharingItems for a remote item and DownloadDeviceItems for a
   device item, remote first; a name that is not known sends nothing and
   changes nothing. *)
C14_HotspotProxied ==
    out.op = "on_hotspot_clicked" =>
        /\ Len(out.sent) <= 1
        /\ out.sent # <<>> => out.acts = <<>>
        /\ out.name \in {"download", "thumbnail-download", "pause", "resume", "cancel", "keep"}
              => out.sent = <<Message(Proxied(out.name, info[out.id]), out.id)>>
        /\ out.name = "keep" => out.id \in saved_items
        /\ out.name = "bogus" => (out.sent = <<>> /\ out.acts = <<>> /\ ~out.changed)

C14_Witness ==
    /\ out.op = "on_hotspot_clicked"
    /\ out.name = "download"
    /\ info[out.id].remote /\ info[out.id].device
    /\ out.sent = <<Message("DownloadSharingItems", out.id)>>

\* the handles of an emitter that were issued to a controller for signals
IssuedTo(E, c, sigs) ==
    {h \in DOMAIN E.issued :
        E.issued[h].c = c /\ \E n \in DOMAIN sigs : sigs[n] = E.issued[h].sig}

(* C15: after stop_tracking none of the controller's three handlers on its
   item tracker and none of its three handlers on the playback manager is
   connected and both lists of handles are empty; a stop_tracking that does
   not follow a start_tracking disconnects nothing; stop_tracking never
   raises. *)
C15_StopTrackingDisconnects ==
    out.op = "stop_tracking" =>
        /\ out.raised = "None"
        /\ IssuedTo(emitters[Tracker(out.c)], out.c, TrackerSignals)
              \cap emitters[Tracker(out.c)].live = {}
        /\ IssuedTo(emitters["playback"], out.c, PlaybackSignals)
              \cap emitters["playback"].live = {}
        /\ K(out.c)._item_tracker_callbacks = <<>>
        /\ K(out.c)._playback_callbacks = <<>>
        /\ ~out.pre => out.ndisc = 0

C15_Witness ==
    /\ out.op = "stop_tracking"
    /\ ~out.pre
    /\ IssuedTo(emitters[Tracker(out.c)], out.c, TrackerSignals) # {}
    /\ \A h \in IssuedTo(emitters["playback"], out.c, PlaybackSignals) :
          emitters["playback"].disc[h] = 1

\* every handle of the set is disconnected, by exactly one disconnect call
DisconnectedOnce(E, hs) == \A h \in hs : h \notin E.live /\ E.disc[h] = 1

(* C16: after a controller's no_longer_displayed, the shuffle, repeat,
   did-stop and config-change handlers its on_displayed calls connected are
   all disconnected, each handle by exactly one disconnect call, whatever
   the sequence of display and undisplay calls. *)
C16_DisplayMatched ==
    (out.op = "controller_no_longer_displayed" /\ out.pre) =>
        /\ DisconnectedOnce(emitters["playback"],
                            IssuedTo(emitters["playback"], out.c, DisplaySignals))
        /\ DisconnectedOnce(emitters["config"],
                            IssuedTo(emitters["config"], out.c, <<"changed">>))

(* C17: for every item id the pending _do_iteration timers are none or one,
   one exactly when the id is in currently_animating, and one start_animation
   call began the animation; start for an id that is animating schedules no
   timer and does not call start_animation. *)
C17_OneTimerChain ==
    /\ \A c \in Controllers, i \in Ids :
          /\ timers[c][i] \in {0, 1}
          /\ timers[c][i] = 1 <=> i \in K(c).currently_animating
          /\ hist[c].starts[i] = timers[c][i]
    /\ (out.op = "on_throbber_drawn" /\ out.pre) => (out.sched = 0 /\ out.started = 0)

C17_Witness ==
    /\ out.op = "on_throbber_drawn"
    /\ out.pre
    /\ timers[out.c][out.id] = 1
    /\ K(out.c).throbber[out.id] = "updated"

Downloading(c, i) == InModel(K(c), i) /\ info[i].state = "downloading"

(* C18: an iteration for an item that is not downloading, or is gone from
   the list, takes the id out of currently_animating and schedules no timer,
   and finishes the throbber of an item still in the list; an iteration for
   a downloading item schedules the next one; a start for an id that is not
   animating begins an animation; and, the timers firing, an animation whose
   item stays not downloading or gone comes to its end. *)
C18_ThrobberStops ==
    /\ [][\A i \in Ids :
            /\ (do_iteration("A", i) /\ ~Downloading("A", i)) =>
                  /\ i \notin K("A").currently_animating'
                  /\ timers'["A"][i] = 0
                  /\ InModel(K("A"), i) => K("A").throbber'[i] = "finished"
            /\ (do_iteration("A", i) /\ Downloading("A", i)) =>
                  /\ i \in K("A").currently_animating'
                  /\ timers'["A"][i] = 1
            /\ (on_throbber_drawn("A", i) /\ i \notin K("A").currently_animating) =>
                  /\ i \in K("A").currently_animating'
                  /\ timers'["A"][i] = 1]_vars
    /\ \A i \in Ids :
          []([]~Downloading("A", i) => <>(i \notin K("A").currently_animating))

C18_Witness ==
    /\ out.op = "do_iteration"
    /\ ~out.pre
    /\ K(out.c).throbber[out.id] = "finished"
    /\ out.id \notin K(out.c).currently_animating
    /\ timers[out.c][out.id] = 0

\* the thread's acquisitions of _lock that it has not released
HoldCount(t) == IF lockOwner = t THEN lockCount ELSE 0

\* the calls of the thread that are past their acquire and before the end
\* of their release
Holding(t) ==
    {n \in DOMAIN stack[t] :
        /\ stack[t][n].fn \in {"get", "set", "load", "save"}
        /\ stack[t][n].pc \notin {"acquire", "return"}}

(* C19: a thread holds _lock once per call of get, set, load and save it is
   inside, so a call that returns or raises has given back what it took;
   the acquire of a nested call (the load that get, set and save trigger,
   the get that load calls) finds the lock free for the thread. *)
C19_LockBalanced ==
    \A t \in Threads :
        /\ HoldCount(t) = Cardinality(Holding(t))
        /\ (Len(stack[t]) > 1 /\ Top(t).pc = "acquire") => LockFree(t)

C19_Witness ==
    /\ At(EventLoopThread, "get", "return")
    /\ Top(EventLoopThread).raised
    /\ Len(stack[EventLoopThread]) = 1
    /\ HoldCount(EventLoopThread) = 0
    /\ loaded

(* C20: track_item_lists called on a controller that holds item tracker
   handles raises AssertionError and connects nothing; a controller holds
   no or three item tracker handles, and no tracker signal has two of its
   handlers connected. *)
C20_TrackOnce ==
    /\ \A c \in Controllers :
          /\ Len(K(c)._item_tracker_callbacks) \in {0, Len(TrackerSignals)}
          /\ \A n \in DOMAIN TrackerSignals :
                Cardinality(ConnectedHandles(emitters[Tracker(c)], TrackerSignals[n], c)) <= 1
    /\ (out.op = "start_tracking" /\ out.pre) =>
          (out.raised = "AssertionError" /\ out.nconn = 0)

C20_Witness ==
    /\ out.op = "start_tracking"
    /\ out.pre
    /\ out.raised = "AssertionError"
    /\ Len(K(out.c)._item_tracker_callbacks) = Len(TrackerSignals)

----------------------------------------------------------------------------
(* C21: activating a row *)

\* what _play_item_list does for a start item that is given
PlayedFrom(i) ==
    IF info[i].is_container_item
    THEN <<"stop", "push_folder_contents_display">>
    ELSE <<"stop", "start", "set_shuffle", "set_repeat">>

\* the one thing _trigger_item does for an item
Triggered(i) ==
    IF info[i].downloaded THEN [sent |-> <<>>, acts |-> PlayedFrom(i)]
    ELSE IF info[i].state = "downloading"
    THEN [sent |-> <<Message("PauseDownload", i)>>, acts |-> <<>>]
    ELSE IF info[i].state = "paused"
    THEN [sent |-> <<Message("ResumeDownload", i)>>, acts |-> <<>>]
    ELSE IF info[i].download_info = None
    THEN [sent |-> <<Message("StartDownload", i)>>, acts |-> <<>>]
    ELSE [sent |-> <<>>, acts |-> <<>>]

\* C21: a double click, or an activation while nothing is playing, plays a
\* downloaded item, else pauses a downloading one, else resumes a paused
\* one, else starts the download of an item without download_info, else
\* does nothing, and never two of these; an activation while playback is
\* playing calls play_pause and nothing else.
C21_TriggerItem ==
    /\ (out.op = "on_row_double_clicked" \/ (out.op = "on_row_activated" /\ ~out.pre)) =>
          /\ out.sent = Triggered(out.id).sent
          /\ out.acts = Triggered(out.id).acts
          /\ out.sent = <<>> \/ out.acts = <<>>
          /\ Len(out.sent) <= 1
          /\ (out.sent # <<>> \/ out.acts = <<>>) => ~out.changed
          /\ out.raised = "None"
    /\ (out.op = "on_row_activated" /\ out.pre) =>
          /\ out.acts = <<"play_pause">>
          /\ out.sent = <<>>
          /\ ~out.changed

\* an activation while playback is playing, on an item that would have
\* been played
C21_Witness ==
    /\ out.op = "on_row_activated"
    /\ out.pre
    /\ info[out.id].downloaded
    /\ out.acts = <<"play_pause">>

----------------------------------------------------------------------------
(* C22: the start of play_selection *)

\* the first item of the list, in the list's order, that is in S
FirstInModel(m, S) ==
    m[CHOOSE n \in DOMAIN m : m[n] \in S /\ \A j \in 1..(n - 1) : m[j] \notin S]

\* C22: play_selection starts at None with no selection and else at the
\* selected item that comes first in the model's order, in whatever order
\* the view reported the selection.
C22_PlaySelectionStart ==
    out.op = "play_selection" =>
        LET S == GetSelectedIds(K(out.c))
        IN out.S = Some(IF S = {} THEN None ELSE Some(FirstInModel(K(out.c).model, S)))

\* two items selected, reported by the view in the reverse of the model's
\* order, and playback started
C22_Witness ==
    /\ out.op = "play_selection"
    /\ Cardinality(GetSelectedIds(K(out.c))) = 2
    /\ out.id # FirstInModel(K(out.c).model, GetSelectedIds(K(out.c)))
    /\ out.acts # <<>>

----------------------------------------------------------------------------
(* C23: _play_item_list *)

\* the handlers that call _play_item_list, by what they left behind
CallsPlayItemList(o) ==
    \/ o.op \in {"play_selection", "play_items"}
    \/ o.op = "on_row_double_clicked" /\ info[o.id].downloaded
    \/ o.op = "on_row_activated" /\ ~o.pre /\ info[o.id].downloaded
    \/ o.op = "on_resume_playing" /\ o.id # 0 /\ ~o.pre

\* the start_id they pass
StartOf(o) ==
    IF o.op \in {"play_selection", "play_items"} THEN o.S[1] ELSE Some(o.id)

\* C23: a call of _play_item_list with no start item on a list without a
\* playable item changes nothing and calls nothing; every other call stops
\* the playback first and then either only pushes the folder-contents
\* display (container start item: no start, _playing_items as it was) or
\* sets _playing_items, starts the playback and then sets the tab's saved
\* shuffle and repeat.
C23_PlayItemList ==
    [][CallsPlayItemList(out') =>
          LET c == out'.c
              start == StartOf(out')
              playable == \E i \in IdsOf(ctl[c].model) : info[i].is_playable
          IN IF start = None /\ ~playable
             THEN /\ out'.acts = <<>>
                  /\ pm' = pm
                  /\ ctl' = ctl
             ELSE /\ out'.acts # <<>>
                  /\ out'.acts[1] = "stop"
                  /\ IF start # None /\ info[start[1]].is_container_item
                     THEN /\ out'.acts = <<"stop", "push_folder_contents_display">>
                          /\ ctl'[c]._playing_items = ctl[c]._playing_items
                          /\ ~pm'.playlist
                          /\ ~pm'.is_playing
                     ELSE /\ out'.acts = <<"stop", "start", "set_shuffle", "set_repeat">>
                          /\ ctl'[c]._playing_items
                          /\ pm'.playlist
                          /\ pm'.shuffle = wstate[c].shuffle
                          /\ pm'.repeat = wstate[c].repeat]_vars

\* a container item played from the selection while this controller's
\* earlier playback is still on: stopped, pushed, nothing started
C23_Witness ==
    /\ out.op = "play_selection"
    /\ out.acts = <<"stop", "push_folder_contents_display">>
    /\ K(out.c)._playing_items
    /\ ~pm.playlist

----------------------------------------------------------------------------
(* C24: _playing_items, the last played item and the resume button *)

Started(o, c) ==
    /\ CallsPlayItemList(o)
    /\ o.c = c
    /\ o.acts = <<"stop", "start", "set_shuffle", "set_repeat">>

\* what update_resume_button shows for a controller: None for (None, None)
ResumeButtonFor(k, w) ==
    IF \/ k._playing_items
       \/ w.last_played = None
       \/ w.last_played[1] \notin IdsOf(k.model)
       \/ ~info[w.last_played[1]].is_playable
    THEN None
    ELSE w.last_played

\* C24: _playing_items becomes true only by a _play_item_list of this
\* controller that started playback, and always does; it becomes false only
\* by the will-stop signal, and always does; a will-play signal writes the
\* playing item as last played for the receivers with _playing_items true
\* and changes no widget state of any other controller; and the handlers of
\* both signals leave the resume button cleared when _playing_items is
\* true or the last played item is missing or not playable, else showing
\* the last played item.
C24_PlaybackTracking ==
    /\ [][\A c \in Controllers :
            /\ (ctl'[c]._playing_items /\ ~ctl[c]._playing_items) => Started(out', c)
            /\ Started(out', c) => ctl'[c]._playing_items
            /\ (~ctl'[c]._playing_items /\ ctl[c]._playing_items) =>
                   out'.op = "playback_will_stop"
            /\ (out'.op = "playback_will_stop" /\ c \in Receivers("will-stop")) =>
                   ~ctl'[c]._playing_items]_vars
    /\ [][out'.op = "playback_will_play" =>
            \A c \in Controllers :
               IF c \in Receivers("will-play") /\ ctl[c]._playing_items
               THEN wstate'[c] = [wstate[c] EXCEPT !.last_played = Some(out'.id)]
               ELSE wstate'[c] = wstate[c] /\ ctl'[c] = ctl[c]]_vars
    /\ [][\A c \in Controllers :
            (/\ ctl[c].show_resume_playing_button
             /\ \/ out'.op = "playback_will_stop" /\ c \in Receivers("will-stop")
                \/ out'.op = "playback_will_play" /\ c \in Receivers("will-play")
                                                  /\ ctl[c]._playing_items)
            => ctl'[c].resume_button = ResumeButtonFor(ctl'[c], wstate'[c])]_vars

\* playback of this controller stopped, and the resume button offers the
\* item the will-play signal recorded
C24_Witness ==
    /\ out.op = "playback_will_stop"
    /\ ~K("A")._playing_items
    /\ wstate["A"].last_played = Some(2)
    /\ K("A").resume_button = Some(2)

----------------------------------------------------------------------------
(* C25: shuffle and repeat when a tab is displayed and when playback stops *)

\* C25: on_displayed leaves the playback manager as it is while it has a
\* playlist and otherwise sets its shuffle and repeat to the tab's saved
\* ones; when the playback has stopped, the shuffle and repeat saved for the
\* displayed controller are the playback manager's.
C25_DisplayKeepsPlayingShuffle ==
    /\ [][out'.op = "controller_displayed" =>
             IF pm.playlist
             THEN pm' = pm
             ELSE pm' = [pm EXCEPT !.shuffle = wstate[out'.c].shuffle,
                                   !.repeat = wstate[out'.c].repeat]]_vars
    /\ [][(out'.op = "playback_did_stop" /\ mgr # NoController) =>
             /\ pm'.shuffle = wstate[mgr].shuffle
             /\ pm'.repeat = wstate[mgr].repeat]_vars

\* a tab displayed while a playlist plays with another shuffle than the
\* tab's saved one
C25_Witness ==
    /\ out.op = "controller_displayed"
    /\ pm.playlist
    /\ pm.shuffle # wstate[out.c].shuffle

----------------------------------------------------------------------------
(* C26: who saves shuffle and repeat *)

Written(c) == wstate'[c] # wstate[c]

\* C26: an update-shuffle or update-repeat signal changes the widget state
\* of no controller but the manager's displayed one, so of one at most, and
\* the displayed one, when subscribed, saves the playback manager's value.
C26_OnlyDisplayedSaves ==
    /\ [][out'.op \in {"update_shuffle", "update_repeat"} =>
             /\ \A c \in Controllers : Written(c) => mgr = c
             /\ Cardinality({c \in Controllers : Written(c)}) <= 1]_vars
    /\ [][(out'.op = "update_shuffle" /\ mgr \in Receivers("update-shuffle")) =>
             wstate'[mgr] = [wstate[mgr] EXCEPT !.shuffle = pm'.shuffle]]_vars
    /\ [][(out'.op = "update_repeat" /\ mgr \in Receivers("update-repeat")) =>
             wstate'[mgr] = [wstate[mgr] EXCEPT !.repeat = pm'.repeat]]_vars

\* both controllers subscribed, the signal saved for the displayed one and
\* not for the other, whose saved shuffle is not the playback manager's
C26_Witness ==
    /\ out.op = "update_shuffle"
    /\ Receivers("update-shuffle") = Controllers
    /\ mgr \in Controllers
    /\ wstate[mgr].shuffle = pm.shuffle
    /\ \E c \in Controllers \ {mgr} : wstate[c].shuffle # pm.shuffle

----------------------------------------------------------------------------
(* C27: the manager's displayed controller *)

\* C27: whenever the manager's displayed controller stops being the
\* displayed one, the step is a controller_no_longer_displayed that ran its
\* no_longer_displayed.
C27_UndisplayedBeforeReplaced ==
    [][(mgr # NoController /\ mgr' # mgr) =>
          /\ out'.op = "controller_no_longer_displayed"
          /\ out'.c = mgr
          /\ out'.pre]_vars

----------------------------------------------------------------------------
(* C28: scroll requests before the initial list *)

\* C28: scroll_to_item before the initial list records the item, the last
\* request replacing the others, and does not scroll; handle_item_list
\* scrolls once to a recorded item and clears it, and does not scroll
\* without one; scroll_to_item after the initial list scrolls and records
\* nothing.
C28_ScrollDeferred ==
    /\ [][out'.op = "scroll_to_item" =>
             IF ctl[out'.c]._got_initial_list
             THEN /\ out'.acts = <<"scroll_to_iter">>
                  /\ ctl'[out'.c]._needs_scroll = ctl[out'.c]._needs_scroll
             ELSE /\ out'.acts = <<>>
                  /\ ctl'[out'.c]._needs_scroll = Some(out'.id)]_vars
    /\ [][out'.op = "handle_item_list" =>
             IF ctl[out'.c]._needs_scroll # None
             THEN /\ out'.acts = <<"scroll_to_iter">>
                  /\ ctl'[out'.c]._needs_scroll = None
             ELSE out'.acts = <<>>]_vars

----------------------------------------------------------------------------
(* C29: the saved selection of a tab *)

\* C29: the selection saved for a tab changes only in a no_longer_displayed
\* of a controller that has had its initial list, and the initial list
\* leaves the saved selection, less the ids that are not in the list,
\* selected.
C29_SavedSelectionRestored ==
    /\ [][\A c \in Controllers :
            wstate'[c].selection # wstate[c].selection =>
               /\ out'.op = "controller_no_longer_displayed"
               /\ out'.c = c
               /\ ctl[c]._got_initial_list]_vars
    /\ [][(out'.op = "handle_item_list" /\ wstate[out'.c].selection # None
                                         /\ wstate[out'.c].selection[1] # {}) =>
             GetSelectedIds(ctl'[out'.c]) =
                wstate[out'.c].selection[1] \cap IdsOf(ctl'[out'.c].model)]_vars

----------------------------------------------------------------------------
(* C30: set_view *)

\* C30: set_view to the selected view changes nothing; to the other view it
\* selects it, saves it as the tab's selected view and gives it the
\* selection of the view it leaves, or leaves the selections alone when
\* that selection cannot be read; the selected view is always one of the
\* controller's views.
C30_SetView ==
    /\ [][out'.op = "set_view" =>
             LET c == out'.c
                 view == out'.name
                 k == ctl[c]
             IN IF view = k.selected_view
                THEN /\ ctl' = ctl
                     /\ wstate' = wstate
                     /\ out'.acts = <<>>
                ELSE /\ ctl'[c].selected_view = view
                     /\ wstate'[c].selected_view = view
                     /\ out'.acts = <<"switch_to_view", "set_selected_view">>
                     /\ ctl'[c].selection =
                           IF out'.S # None
                           THEN [k.selection EXCEPT ![view] = k.selection[k.selected_view]]
                           ELSE k.selection]_vars
    /\ [](\A c \in Controllers : K(c).selected_view \in Views)

\* the switch made although the selection could not be read: the view now
\* on display has another selection than the one that was left
C30_Witness ==
    /\ out.op = "set_view"
    /\ ~out.pre
    /\ out.S = None
    /\ K(out.c).selected_view = out.name
    /\ wstate[out.c].selected_view = out.name
    /\ \E v \in Views : K(out.c).selection[v] # GetSelectedIds(K(out.c))

----------------------------------------------------------------------------
(* C31: the sort key round trip *)

StartsWithDash(key) == key # <<>> /\ key[1] = "-"

\* C31: the key made for a sorter whose KEY has a sorter and does not start
\* with '-' is the KEY when ascending and '-' followed by the KEY when
\* descending, and parses back to the KEY and the direction; make_sorter
\* for a column without a sorter returns the sorter of the tab type's
\* default sort key, column and direction, whatever direction was asked.
C31_SortKeyRoundTrip ==
    /\ (/\ out.op = "parse_sort_key"
        /\ out.S[1].sorter.KEY \in SORT_KEY_MAP
        /\ ~StartsWithDash(out.S[1].sorter.KEY)) =>
          LET s == out.S[1].sorter
          IN /\ out.S[1].key = IF s.ascending THEN s.KEY ELSE <<"-">> \o s.KEY
             /\ out.S[1].parsed = [column |-> s.KEY, ascending |-> s.ascending]
    /\ (out.op = "make_sorter" /\ out.S[1].column \notin SORT_KEY_MAP) =>
          LET d == out.S[1].default
          IN /\ out.raised = "None"
             /\ out.S[1].sorter =
                   Some(IF StartsWithDash(d)
                        THEN [KEY |-> SubSeq(d, 2, Len(d)), ascending |-> FALSE]
                        ELSE [KEY |-> d, ascending |-> TRUE])

\* a descending sorter of a column of two characters, encoded with the '-'
\* and read back
C31_Witness ==
    /\ out.op = "parse_sort_key"
    /\ out.S[1].sorter = [KEY |-> <<"a", "b">>, ascending |-> FALSE]
    /\ out.S[1].key = <<"-", "a", "b">>
    /\ out.S[1].parsed = [column |-> <<"a", "b">>, ascending |-> FALSE]

====
